---- MODULE Spec2Model ----
(***************************************************************************)
(* Model of the option-pricing core of stockr:                             *)
(*   stockr/models/black_scholes.py   black_scholes_merton                 *)
(*   stockr/models/binomial.py        binomial_option_price                *)
(*   stockr/models/bates.py           bates_simplified, bates_approximation*)
(*   stockr/analysis/options.py       get_options_data                     *)
(* and of its provider layer:                                              *)
(*   stockr/analysis/data_manager.py  get_provider, the default provider   *)
(*   stockr/analysis/providers/       YFinanceProvider, PolygonProvider    *)
(*                                                                         *)
(* Python floats are modelled as decimal floating-point numbers with a     *)
(* four-digit mantissa, m * 10^e, plus a NaN.  Every arithmetic operation  *)
(* rounds its exact result to the nearest representable number, as IEEE    *)
(* arithmetic does with 53 bits.  Division by zero, which raises           *)
(* ZeroDivisionError on Python floats, is modelled by the "raised" field   *)
(* of each pricer's result.                                                *)
(***************************************************************************)
EXTENDS Integers, Sequences, FiniteSets, TLC

----------------------------------------------------------------------------
(* Floating-point arithmetic (Python float / math module).                 *)

\* The transcendental functions and the pricers are applied through the one
\* recursive operator Run (defined after them), Run(name, arguments), so
\* that an operator used in many places is analysed once.
RECURSIVE Run(_, _)

AbsI(i) == IF i < 0 THEN -i ELSE i

RECURSIVE Pow10(_)
Pow10(k) == IF k <= 0 THEN 1 ELSE 10 * Pow10(k - 1)

\* i / 10 rounded to the nearest integer, halves away from zero
RoundDiv10(i) == IF i >= 0 THEN (i + 5) \div 10 ELSE -((5 - i) \div 10)

NaN == [nan |-> TRUE, m |-> 0, e |-> 0]

\* the float nearest to m * 10^e: mantissa of exactly four digits, or zero
RECURSIVE Norm(_, _)
Norm(m, e) ==
    IF m = 0 THEN [nan |-> FALSE, m |-> 0, e |-> 0]
    ELSE IF AbsI(m) >= 10000 THEN Norm(RoundDiv10(m), e + 1)
    ELSE IF AbsI(m) < 1000 THEN Norm(m * 10, e - 1)
    ELSE [nan |-> FALSE, m |-> m, e |-> e]

\* float literal m * 10^e
F(m, e) == Norm(m, e)

Zero == F(0, 0)
One == F(1, 0)
Two == F(2, 0)
Half == F(5, -1)
Hundred == F(100, 0)

IsZero(a) == ~a.nan /\ a.m = 0

\* np.isfinite
isfinite(a) == ~a.nan

Neg(a) == IF a.nan THEN NaN ELSE [a EXCEPT !.m = -a.m]

\* abs()
abs(a) == IF a.nan THEN NaN ELSE [a EXCEPT !.m = AbsI(a.m)]

Mul(a, b) == IF a.nan \/ b.nan THEN NaN ELSE Norm(a.m * b.m, a.e + b.e)

\* a + b: the operand of smaller exponent is aligned to the larger one; an
\* operand more than five decimal orders smaller is below half an ulp
AddAligned(hi, lo) ==
    IF hi.e - lo.e > 5 THEN hi
    ELSE Norm(hi.m * Pow10(hi.e - lo.e) + lo.m, lo.e)

Add(a, b) ==
    IF a.nan \/ b.nan THEN NaN
    ELSE IF a.m = 0 THEN b
    ELSE IF b.m = 0 THEN a
    ELSE IF a.e >= b.e THEN AddAligned(a, b) ELSE AddAligned(b, a)

Sub(a, b) == Add(a, Neg(b))

\* a / b for b # 0 (the callers test b = 0 first: ZeroDivisionError)
Div(a, b) ==
    IF a.nan \/ b.nan THEN NaN
    ELSE LET q == (AbsI(a.m) * 100000) \div AbsI(b.m)
             s == IF (a.m < 0) = (b.m < 0) THEN 1 ELSE -1
         IN  Norm(s * q, a.e - b.e - 5)

\* comparisons; every comparison with NaN is false
Lt(a, b) == ~a.nan /\ ~b.nan /\ Sub(a, b).m < 0
Gt(a, b) == Lt(b, a)
Le(a, b) == ~a.nan /\ ~b.nan /\ Sub(a, b).m <= 0
Ge(a, b) == Le(b, a)

\* Python max(a, b): b if b > a else a
max(a, b) == IF Gt(b, a) THEN b ELSE a

\* float(i) for an int i
FromInt(i) == Norm(i, 0)

\* int(a) truncated towards zero, for |a| < 10^9
Trunc(a) ==
    IF a.m = 0 THEN 0
    ELSE IF a.e >= 0 THEN a.m * Pow10(a.e)
    ELSE IF a.e < -4 THEN 0
    ELSE (IF a.m >= 0 THEN 1 ELSE -1) * (AbsI(a.m) \div Pow10(-a.e))

\* a ** n for an int n >= 0 (0.0 ** 0 = 1.0, as in Python)
RECURSIVE PowInt(_, _)
PowInt(a, n) ==
    IF n = 0 THEN One
    ELSE IF n % 2 = 0 THEN LET h == PowInt(a, n \div 2) IN Mul(h, h)
    ELSE Mul(a, PowInt(a, n - 1))

\* math.factorial
RECURSIVE factorial(_)
factorial(n) == IF n <= 1 THEN 1 ELSE n * factorial(n - 1)

\* largest integer whose square is at most n, by bisection on [lo, hi)
RECURSIVE ISqrt(_, _, _)
ISqrt(n, lo, hi) ==
    IF hi - lo <= 1 THEN lo
    ELSE LET mid == (lo + hi) \div 2
         IN  IF mid * mid <= n THEN ISqrt(n, mid, hi) ELSE ISqrt(n, lo, mid)

\* math.sqrt for a >= 0
sqrt(a) ==
    IF a.nan THEN NaN
    ELSE IF a.m = 0 THEN Zero
    ELSE LET odd == (a.e % 2) # 0
             mm == IF odd THEN a.m * 100000 ELSE a.m * 10000
             ee == IF odd THEN a.e - 5 ELSE a.e - 4
         IN  Norm(ISqrt(mm, 0, 46341), ee \div 2)

\* sum of x^i / i! for i = k .. 9, given term = x^k / k!
RECURSIVE ExpSeries(_, _, _)
ExpSeries(x, term, k) ==
    IF k > 9 \/ term.m = 0 THEN Zero
    ELSE Add(term, ExpSeries(x, Div(Mul(term, x), FromInt(k + 1)), k + 1))

EulerE == F(2718, -3)

\* math.exp: e^trunc(x) * e^(x - trunc(x))
exp_def(x) ==
    IF x.nan THEN NaN
    ELSE LET k == Trunc(x)
             s == ExpSeries(Sub(x, FromInt(k)), One, 0)
         IN  IF k >= 0 THEN Mul(PowInt(EulerE, k), s)
             ELSE Div(s, PowInt(EulerE, -k))

exp(x) == Run("exp", <<x>>)

Ln2 == F(6931, -4)
Sqrt2 == F(1414, -3)
InvSqrt2 == F(7071, -4)

\* 2 * (z + z^3/3 + z^5/5 + ...), the series of ln((1+z)/(1-z))
RECURSIVE LnSeries(_, _, _)
LnSeries(z2, zpow, k) ==
    IF k > 11 \/ zpow.m = 0 THEN Zero
    ELSE Add(Div(zpow, FromInt(k)), LnSeries(z2, Mul(zpow, z2), k + 2))

\* ln(y * 2^k) with y brought into [1/sqrt 2, sqrt 2]
RECURSIVE LnReduce(_, _)
LnReduce(y, k) ==
    IF Gt(y, Sqrt2) THEN LnReduce(Div(y, Two), k + 1)
    ELSE IF Lt(y, InvSqrt2) THEN LnReduce(Mul(y, Two), k - 1)
    ELSE LET z == Div(Sub(y, One), Add(y, One))
         IN  Add(Mul(Two, LnSeries(Mul(z, z), z, 1)), Mul(FromInt(k), Ln2))

\* math.log for x > 0
log_def(x) == IF x.nan THEN NaN ELSE LnReduce(x, 0)

log(x) == Run("log", <<x>>)

\* scipy.stats.norm.cdf: upper tail by the Abramowitz-Stegun 26.2.17
\* polynomial, lower half by symmetry
CdfTail(x) ==
    LET t == Div(One, Add(One, Mul(F(2316, -4), x)))
        poly == Mul(t, Add(F(3194, -4),
                Mul(t, Add(F(-3566, -4),
                Mul(t, Add(F(1781, -3),
                Mul(t, Add(F(-1821, -3),
                Mul(t, F(1330, -3))))))))))
        pdf == Mul(F(3989, -4), exp(Neg(Mul(Half, Mul(x, x)))))
    IN  Mul(pdf, poly)

norm_cdf_def(x) ==
    IF x.nan THEN NaN
    ELSE LET tail == CdfTail(abs(x))
         IN  IF x.m >= 0 THEN Sub(One, tail) ELSE tail

norm_cdf(x) == Run("norm_cdf", <<x>>)

----------------------------------------------------------------------------
(* stockr/models/black_scholes.py                                          *)

\* option_type.lower() == "call"
IsCall(option_type) == option_type = "call"

\* the volatility used as passed, without the conversion
bsm_sigma_as_passed(sigma) == sigma

\* "Convert volatility from percentage to decimal": sigma = sigma / 100
bsm_sigma(sigma) == Div(sigma, Hundred)

\* the put branch without the sign change of d1 and d2
black_scholes_merton_put_unsigned(S, K, T, r, sigma0, option_type) ==
    LET sigma == bsm_sigma(sigma0)
        vol == Mul(sigma, sqrt(T))
        d1 == Div(Add(log(Div(S, K)),
                      Mul(Add(r, Mul(Half, PowInt(sigma, 2))), T)), vol)
        d2 == Sub(d1, vol)
        option_price ==
            IF IsCall(option_type)
            THEN Sub(Mul(S, norm_cdf(d1)),
                     Mul(Mul(K, exp(Neg(Mul(r, T)))), norm_cdf(d2)))
            ELSE Sub(Mul(Mul(K, exp(Neg(Mul(r, T)))), norm_cdf(d2)),
                     Mul(S, norm_cdf(d1)))
    IN  IF IsZero(vol)
        THEN [raised |-> TRUE, sigma |-> sigma, option_price |-> NaN]
        ELSE [raised |-> FALSE, sigma |-> sigma, option_price |-> option_price]

black_scholes_merton_def(S, K, T, r, sigma0, option_type) ==
    LET sigma == bsm_sigma(sigma0)
        vol == Mul(sigma, sqrt(T))
        d1 == Div(Add(log(Div(S, K)),
                      Mul(Add(r, Mul(Half, PowInt(sigma, 2))), T)), vol)
        d2 == Sub(d1, vol)
        option_price ==
            IF IsCall(option_type)
            THEN Sub(Mul(S, norm_cdf(d1)),
                     Mul(Mul(K, exp(Neg(Mul(r, T)))), norm_cdf(d2)))
            ELSE Sub(Mul(Mul(K, exp(Neg(Mul(r, T)))), norm_cdf(Neg(d2))),
                     Mul(S, norm_cdf(Neg(d1))))
    IN  IF IsZero(vol)
        THEN [raised |-> TRUE, sigma |-> sigma, option_price |-> NaN]
        ELSE [raised |-> FALSE, sigma |-> sigma, option_price |-> option_price]

black_scholes_merton(S, K, T, r, sigma, option_type) ==
    Run("black_scholes_merton", <<S, K, T, r, sigma, option_type>>)

----------------------------------------------------------------------------
(* stockr/models/binomial.py                                               *)

\* the unconditional conversion, as black_scholes.py does it
binomial_sigma_always(sigma) == Div(sigma, Hundred)

\* "Convert volatility from percentage to decimal if needed"
binomial_sigma(sigma) == IF Gt(sigma, One) THEN Div(sigma, Hundred) ELSE sigma

\* np.maximum(0, x): NaN propagates
np_maximum0(x) == IF x.nan THEN NaN ELSE max(Zero, x)

\* option values at the final step, Python index i at position i + 1
TerminalValues(S, K, u, d, option_type, steps) ==
    [i \in 1..(steps + 1) |->
        LET price == Mul(Mul(S, PowInt(u, steps - (i - 1))), PowInt(d, i - 1))
        IN  IF IsCall(option_type) THEN np_maximum0(Sub(price, K))
            ELSE np_maximum0(Sub(K, price))]

\* an early-exercise test that keeps the smaller of the two values
EarlyExerciseSmaller(option_value, asset_price, K, option_type) ==
    LET exercise_value == IF IsCall(option_type)
                          THEN max(Zero, Sub(asset_price, K))
                          ELSE max(Zero, Sub(K, asset_price))
    IN  IF Lt(exercise_value, option_value) THEN exercise_value
        ELSE option_value

\* the early-exercise test of one node
EarlyExercise(option_value, asset_price, K, option_type) ==
    LET exercise_value == IF IsCall(option_type)
                          THEN max(Zero, Sub(asset_price, K))
                          ELSE max(Zero, Sub(K, asset_price))
    IN  max(option_value, exercise_value)

\* the discounted expected value of a node, without the early-exercise test
NodeValueContinuation(ov, i, j, S, K, u, d, p, df, option_type, american) ==
    Mul(df, Add(Mul(p, ov[j + 1]), Mul(Sub(One, p), ov[j + 2])))

\* the value written to option_values[j] at step i
NodeValue(ov, i, j, S, K, u, d, p, df, option_type, american) ==
    LET asset_price == Mul(Mul(S, PowInt(u, i - j)), PowInt(d, j))
        option_value == Mul(df, Add(Mul(p, ov[j + 1]),
                                    Mul(Sub(One, p), ov[j + 2])))
    IN  IF american
        THEN EarlyExercise(option_value, asset_price, K, option_type)
        ELSE option_value

\* the nodes of step i taken in descending order, from node i - j on
RECURSIVE InnerLoopDescending(_, _, _, _, _, _, _, _, _, _, _)
InnerLoopDescending(ov, i, j, S, K, u, d, p, df, option_type, american) ==
    IF j > i THEN ov
    ELSE InnerLoopDescending([ov EXCEPT ![i - j + 1] =
                                  NodeValue(ov, i, i - j, S, K, u, d, p, df,
                                            option_type, american)],
                             i, j + 1, S, K, u, d, p, df, option_type,
                             american)

\* for j in range(i + 1), from j on: option_values updated in place
RECURSIVE InnerLoop(_, _, _, _, _, _, _, _, _, _, _)
InnerLoop(ov, i, j, S, K, u, d, p, df, option_type, american) ==
    IF j > i THEN ov
    ELSE InnerLoop([ov EXCEPT ![j + 1] =
                        NodeValue(ov, i, j, S, K, u, d, p, df,
                                  option_type, american)],
                   i, j + 1, S, K, u, d, p, df, option_type, american)

\* for i in range(steps - 1, -1, -1), from i on
RECURSIVE BackwardInduction(_, _, _, _, _, _, _, _, _, _)
BackwardInduction(ov, i, S, K, u, d, p, df, option_type, american) ==
    IF i < 0 THEN ov
    ELSE BackwardInduction(
             InnerLoop(ov, i, 0, S, K, u, d, p, df, option_type, american),
             i - 1, S, K, u, d, p, df, option_type, american)

\* an inner loop "for j in range(i)", one node short
NextNodeShortRange(i, j) == IF j >= i - 1 THEN <<i - 1, 0>> ELSE <<i, j + 1>>

\* "for i in range(steps - 1, -1, -1): for j in range(i + 1)": the node
\* after node j of step i; step -1 ends the loop
NextNode(i, j) == IF j = i THEN <<i - 1, 0>> ELSE <<i, j + 1>>

\* the values the passes of the inner loop write, in the order of the
\* passes, from node j of step i on
RECURSIVE Written(_, _, _, _, _, _, _, _, _, _, _, _)
Written(values, ov, i, j, S, K, u, d, p, df, option_type, american) ==
    IF i < 0 THEN values
    ELSE LET v == NodeValue(ov, i, j, S, K, u, d, p, df, option_type,
                            american)
             next == NextNode(i, j)
         IN  Written(Append(values, v), [ov EXCEPT ![j + 1] = v], next[1],
                     next[2], S, K, u, d, p, df, option_type, american)

\* binomial.py 33-61: the locals before the backward induction and the
\* terminal values, with what each pass of the inner loop writes
binomial_locals_def(S, K, T, r, sigma0, option_type, steps, american) ==
    LET sigma == binomial_sigma(sigma0)
        dt == Div(T, FromInt(steps))
        u == exp(Mul(sigma, sqrt(dt)))
        d == Div(One, u)
        a == exp(Mul(Sub(r, Zero), dt))
        p == Div(Sub(a, d), Sub(u, d))
        df == exp(Neg(Mul(r, dt)))
        terminal == TerminalValues(S, K, u, d, option_type, steps)
    IN  IF IsZero(Sub(u, d))
        THEN [raised |-> TRUE, u |-> u, d |-> d, p |-> NaN, df |-> df,
              terminal |-> <<>>, written |-> <<>>]
        ELSE [raised |-> FALSE, u |-> u, d |-> d, p |-> p, df |-> df,
              terminal |-> terminal,
              written |-> Written(<<>>, terminal, steps - 1, 0, S, K, u, d,
                                  p, df, option_type, american)]

binomial_locals(S, K, T, r, sigma0, option_type, steps, american) ==
    Run("binomial_locals",
        <<S, K, T, r, sigma0, option_type, steps, american>>)

binomial_option_price_def(S, K, T, r, sigma0, option_type, steps, american, dividend_yield) ==
    LET sigma == binomial_sigma(sigma0)
        dt == Div(T, FromInt(steps))
        u == exp(Mul(sigma, sqrt(dt)))
        d == Div(One, u)
        a == exp(Mul(Sub(r, dividend_yield), dt))
        p == Div(Sub(a, d), Sub(u, d))
        df == exp(Neg(Mul(r, dt)))
        option_values ==
            BackwardInduction(TerminalValues(S, K, u, d, option_type, steps),
                              steps - 1, S, K, u, d, p, df,
                              option_type, american)
    IN  IF IsZero(Sub(u, d))
        THEN [raised |-> TRUE, sigma |-> sigma, u |-> u, p |-> NaN,
              option_price |-> NaN]
        ELSE [raised |-> FALSE, sigma |-> sigma, u |-> u, p |-> p,
              option_price |-> option_values[1]]

binomial_option_price(S, K, T, r, sigma, option_type, steps, american, dividend_yield) ==
    Run("binomial_option_price",
        <<S, K, T, r, sigma, option_type, steps, american, dividend_yield>>)

----------------------------------------------------------------------------
(* stockr/models/bates.py                                                  *)

max_jumps == 10

\* "Convert volatility from percentage to decimal if needed"
bates_sigma(sigma) == IF Gt(sigma, One) THEN Div(sigma, Hundred) ELSE sigma

\* adjusted_drift = r - lambda_param * (exp(mu_j + 0.5 * sigma_j**2) - 1)
adjusted_drift(r, lambda_param, mu_j, sigma_j) ==
    Sub(r, Mul(lambda_param,
               Sub(exp(Add(mu_j, Mul(Half, PowInt(sigma_j, 2)))), One)))

\* probability of exactly n jumps during time T
jump_prob(lambda_param, T, n) ==
    Div(Mul(PowInt(Mul(lambda_param, T), n), exp(Neg(Mul(lambda_param, T)))),
        FromInt(factorial(n)))

\* a threshold of one percent
NegligibleBelowPercent(prob) == Lt(prob, F(1, -2))

\* "Skip if probability is negligible": jump_prob < 1e-10
Negligible(prob) == Lt(prob, F(1, -10))

\* the discount factor applied to the strike inside a mixture term
TermDiscount(r, drift, T) == exp(Neg(Mul(r, T)))

\* one iteration of the mixture loop
BatesTerm_def(S, K, T, r, sigma, lambda_param, mu_j, sigma_j, option_type, n) ==
    LET prob == jump_prob(lambda_param, T, n)
        drift == adjusted_drift(r, lambda_param, mu_j, sigma_j)
        adjusted_sigma ==
            sqrt(Add(PowInt(sigma, 2),
                     Div(Mul(FromInt(n), PowInt(sigma_j, 2)), T)))
        adjusted_S == Mul(S, exp(Mul(FromInt(n), mu_j)))
        vol == Mul(adjusted_sigma, sqrt(T))
        d1 == Div(Add(log(Div(adjusted_S, K)),
                      Mul(Add(drift, Mul(Half, PowInt(adjusted_sigma, 2))), T)),
                  vol)
        d2 == Sub(d1, vol)
        discount == TermDiscount(r, drift, T)
        bs_price ==
            IF IsCall(option_type)
            THEN Sub(Mul(adjusted_S, norm_cdf(d1)),
                     Mul(Mul(K, discount), norm_cdf(d2)))
            ELSE Sub(Mul(Mul(K, discount), norm_cdf(Neg(d2))),
                     Mul(adjusted_S, norm_cdf(Neg(d1))))
    IN  IF Negligible(prob)
        THEN [n |-> n, skipped |-> TRUE, raised |-> FALSE, jump_prob |-> prob,
              rate_d |-> drift, discount |-> NaN, bs_price |-> NaN]
        ELSE IF IsZero(vol)
        THEN [n |-> n, skipped |-> FALSE, raised |-> TRUE, jump_prob |-> prob,
              rate_d |-> drift, discount |-> NaN, bs_price |-> NaN]
        ELSE [n |-> n, skipped |-> FALSE, raised |-> FALSE, jump_prob |-> prob,
              rate_d |-> drift, discount |-> discount, bs_price |-> bs_price]

BatesTerm(S, K, T, r, sigma, lambda_param, mu_j, sigma_j, option_type, n) ==
    Run("BatesTerm",
        <<S, K, T, r, sigma, lambda_param, mu_j, sigma_j, option_type, n>>)

\* for n in range(max_jumps), from n on: the terms evaluated and the sum
RECURSIVE MixtureLoop(_, _, _, _, _, _, _, _, _, _, _, _)
MixtureLoop(terms, option_price, n, S, K, T, r, sigma, lambda_param, mu_j, sigma_j, option_type) ==
    IF n >= max_jumps
    THEN [raised |-> FALSE, terms |-> terms, option_price |-> option_price]
    ELSE LET t == BatesTerm(S, K, T, r, sigma, lambda_param, mu_j, sigma_j,
                            option_type, n)
         IN  IF t.raised
             THEN [raised |-> TRUE, terms |-> Append(terms, t),
                   option_price |-> NaN]
             ELSE MixtureLoop(
                      Append(terms, t),
                      IF t.skipped THEN option_price
                      ELSE Add(option_price, Mul(t.jump_prob, t.bs_price)),
                      n + 1, S, K, T, r, sigma, lambda_param, mu_j, sigma_j,
                      option_type)

bates_simplified_def(S, K, T, r, sigma0, lambda_param, mu_j, sigma_j, option_type) ==
    LET sigma == bates_sigma(sigma0)
        loop == MixtureLoop(<<>>, Zero, 0, S, K, T, r, sigma, lambda_param,
                            mu_j, sigma_j, option_type)
    IN  [raised |-> loop.raised, sigma |-> sigma, terms |-> loop.terms,
         option_price |-> loop.option_price]

bates_simplified(S, K, T, r, sigma, lambda_param, mu_j, sigma_j, option_type) ==
    Run("bates_simplified",
        <<S, K, T, r, sigma, lambda_param, mu_j, sigma_j, option_type>>)

\* the default jump parameters of bates_approximation
DefaultLambda == F(2, 0)
DefaultMuJ == F(-2, -2)
DefaultSigmaJ == F(5, -2)

\* the call without lambda_param: the default of the signature of
\* bates_simplified, 1.0, takes its place
bates_approximation_signature_lambda(S, K, T, r, sigma, option_type) ==
    bates_simplified(S, K, T, r, sigma, One, DefaultMuJ, DefaultSigmaJ,
                     option_type)

bates_approximation(S, K, T, r, sigma, option_type) ==
    bates_simplified(S, K, T, r, sigma, DefaultLambda, DefaultMuJ,
                     DefaultSigmaJ, option_type)

----------------------------------------------------------------------------
(* stockr/analysis/options.py                                              *)

\* steps of the lattice in get_options_data (100 in the source)
LatticeSteps == 3

target_days == 30

\* index of the first expiration at least target_days out, 0 if none;
\* an expiration date is represented by its days_to_expiration
RECURSIVE FirstFarEnough(_, _)
FirstFarEnough(expirations, i) ==
    IF i > Len(expirations) THEN 0
    ELSE IF expirations[i] >= target_days THEN i
    ELSE FirstFarEnough(expirations, i + 1)

\* selected_expiration, for a non-empty list
SelectExpiration(expirations) ==
    LET i == FirstFarEnough(expirations, 1)
    IN  IF i # 0 THEN expirations[i] ELSE expirations[Len(expirations)]

\* idxmax() in place of idxmin(): first row of maximal |strike - target|
RECURSIVE IdxMax(_, _, _, _)
IdxMax(rows, target, i, best) ==
    IF i > Len(rows) THEN best
    ELSE IF Gt(abs(Sub(rows[i].strike, target)),
               abs(Sub(rows[best].strike, target)))
         THEN IdxMax(rows, target, i + 1, i)
         ELSE IdxMax(rows, target, i + 1, best)

\* df["strike_diff"].idxmin(): first row of minimal |strike - target|
RECURSIVE IdxMin(_, _, _, _)
IdxMin(rows, target, i, best) ==
    IF i > Len(rows) THEN best
    ELSE IF Lt(abs(Sub(rows[i].strike, target)),
               abs(Sub(rows[best].strike, target)))
         THEN IdxMin(rows, target, i + 1, i)
         ELSE IdxMin(rows, target, i + 1, best)

ClosestRow(rows, target) == rows[IdxMin(rows, target, 2, 1)]

\* calls_df["strike_diff"] = abs(calls_df["strike"] - target): the column
strike_diff(rows, target) ==
    [i \in 1..Len(rows) |-> abs(Sub(rows[i].strike, target))]

\* column.idxmin(): the first index of the minimal value
RECURSIVE idxmin(_, _, _)
idxmin(column, i, best) ==
    IF i > Len(column) THEN best
    ELSE IF Lt(column[i], column[best]) THEN idxmin(column, i + 1, i)
    ELSE idxmin(column, i + 1, best)

\* a frame as stock.option_chain builds it: the rows, no strike_diff column
Frame(rows) == [rows |-> rows, strike_diff |-> <<>>]

\* every invocation is handed the frames of the first one
frames_of_first_invocation(t) == "A"

\* options = stock.option_chain(selected_expiration) on the Ticker the
\* invocation created itself: the frames object of invocation t
frames_of(t) == t

\* a pricer call: the named call raises when the environment makes it fail
PricerCall(name, fault, result) ==
    IF fault = name THEN [result EXCEPT !.raised = TRUE] ELSE result

\* the distance test alone, without the test for a non-finite price
TooFarDistanceOnly(bates_price, bsm_price) ==
    Gt(abs(Sub(bates_price, bsm_price)), bsm_price)

\* "If Bates price differs too much from BSM, fall back to BSM"
TooFar(bates_price, bsm_price) ==
    Gt(abs(Sub(bates_price, bsm_price)), bsm_price) \/ ~isfinite(bates_price)

Warning(side, text, value) == [side |-> side, text |-> text, value |-> value]

\* the sanity check of both sides, after both Bates prices were computed
SanityCheck(bates_call, bsm_call, bates_put, bsm_put, errors) ==
    LET call_far == TooFar(bates_call, bsm_call)
        put_far == TooFar(bates_put, bsm_put)
        errors1 == IF call_far
                   THEN Append(errors, Warning("call",
                            "Bates call price too far from BSM", bsm_call))
                   ELSE errors
        errors2 == IF put_far
                   THEN Append(errors1, Warning("put",
                            "Bates put price too far from BSM", bsm_put))
                   ELSE errors1
    IN  [bates_call_price |-> IF call_far THEN bsm_call ELSE bates_call,
         bates_put_price |-> IF put_far THEN bsm_put ELSE bates_put,
         errors |-> errors2]

\* a handler that records the failure and substitutes nothing
BatesFailedNoSubstitute(bsm_call, bsm_put, errors) ==
    [bates_call_price |-> NaN,
     bates_put_price |-> NaN,
     errors |-> Append(errors, Warning("both",
                    "Bates process did not converge", NaN))]

\* except Exception: "Bates model can sometimes fail, fallback to BSM"
BatesFailed(bsm_call, bsm_put, errors) ==
    [bates_call_price |-> bsm_call,
     bates_put_price |-> bsm_put,
     errors |-> Append(errors, Warning("both",
                    "Bates process did not converge", NaN))]

\* the Bates section: the try block and its handler
BatesSection(bates_call, bates_put, bsm_call, bsm_put, errors) ==
    IF bates_call.raised \/ bates_put.raised
    THEN BatesFailed(bsm_call, bsm_put, errors)
    ELSE SanityCheck(bates_call.option_price, bsm_call,
                     bates_put.option_price, bsm_put, errors)

\* what a pricer call did, kept beside the returned dictionaries
Summary(result) ==
    [raised |-> result.raised, sigma |-> result.sigma,
     option_price |-> result.option_price]

\* a dictionary whose lattice price follows the reported Bates price
OptionDictLatticeFollows(row, bsm_price, bin_price, bates_price, selected_expiration) ==
    [strike |-> row.strike,
     market_price |-> row.lastPrice,
     theoretical_price |-> bsm_price,
     price_difference |-> Sub(row.lastPrice, bsm_price),
     implied_volatility |-> Mul(row.impliedVolatility, Hundred),
     expiration |-> selected_expiration,
     days_to_expiration |-> selected_expiration,
     binomial_price |-> bates_price,
     bates_price |-> bates_price]

OptionDict(row, bsm_price, bin_price, bates_price, selected_expiration) ==
    [strike |-> row.strike,
     market_price |-> row.lastPrice,
     theoretical_price |-> bsm_price,
     price_difference |-> Sub(row.lastPrice, bsm_price),
     implied_volatility |-> Mul(row.impliedVolatility, Hundred),
     expiration |-> selected_expiration,
     days_to_expiration |-> selected_expiration,
     binomial_price |-> bin_price,
     bates_price |-> bates_price]

Raise(where) == [raised |-> TRUE, where |-> where]

\* get_options_data(ticker, current_price, annual_volatility) in an
\* environment where stock.options = expirations, the chain of every
\* expiration is (calls, puts), get_risk_free_rate() = risk_free_rate and
\* the pricer call named by fault fails.  The result is the returned tuple
\* (call_option, put_option, errors) or the raised exception; "calls"
\* records what each pricer call did (the put call of the Bates pricer is
\* not made when the call one raised)
get_options_data_def(current_price, annual_volatility, expirations, calls, puts, risk_free_rate, fault) ==
    LET call_strike_target == Mul(current_price, F(110, -2))
        put_strike_target == Mul(current_price, F(90, -2))
        selected_expiration == SelectExpiration(expirations)
        closest_call == ClosestRow(calls, call_strike_target)
        closest_put == ClosestRow(puts, put_strike_target)
        days_to_expiration == selected_expiration
        T == Div(FromInt(days_to_expiration), F(365, 0))
        S == current_price
        Kc == closest_call.strike
        Kp == closest_put.strike
        r == risk_free_rate
        bsm_call == PricerCall("bsm_call", fault,
            black_scholes_merton(S, Kc, T, r, annual_volatility, "call"))
        bsm_put == PricerCall("bsm_put", fault,
            black_scholes_merton(S, Kp, T, r, annual_volatility, "put"))
        bin_call == PricerCall("bin_call", fault,
            binomial_option_price(S, Kc, T, r,
                Div(annual_volatility, Hundred), "call", LatticeSteps,
                FALSE, Zero))
        bin_put == PricerCall("bin_put", fault,
            binomial_option_price(S, Kp, T, r,
                Div(annual_volatility, Hundred), "put", LatticeSteps,
                FALSE, Zero))
        bates_call == PricerCall("bates_call", fault,
            bates_approximation(S, Kc, T, r, annual_volatility, "call"))
        bates_put == PricerCall("bates_put", fault,
            bates_approximation(S, Kp, T, r, annual_volatility, "put"))
        bates == BatesSection(bates_call, bates_put, bsm_call.option_price,
                              bsm_put.option_price, <<>>)
    IN  IF expirations = <<>> THEN Raise("expirations")
        ELSE IF calls = <<>> \/ puts = <<>> THEN Raise("chain")
        ELSE IF bsm_call.raised THEN Raise("bsm_call")
        ELSE IF bsm_put.raised THEN Raise("bsm_put")
        ELSE IF bin_call.raised THEN Raise("bin_call")
        ELSE IF bin_put.raised THEN Raise("bin_put")
        ELSE [raised |-> FALSE,
              call_option |-> OptionDict(closest_call, bsm_call.option_price,
                                  bin_call.option_price,
                                  bates.bates_call_price, selected_expiration),
              put_option |-> OptionDict(closest_put, bsm_put.option_price,
                                  bin_put.option_price,
                                  bates.bates_put_price, selected_expiration),
              errors |-> bates.errors,
              calls |-> [bsm_call |-> Summary(bsm_call),
                         bsm_put |-> Summary(bsm_put),
                         bin_call |-> Summary(bin_call),
                         bin_put |-> Summary(bin_put),
                         bates_call |-> Summary(bates_call),
                         bates_put |-> Summary(bates_put)]]

get_options_data(current_price, annual_volatility, expirations, calls, puts, risk_free_rate, fault) ==
    Run("get_options_data",
        <<current_price, annual_volatility, expirations, calls, puts,
          risk_free_rate, fault>>)

Run(name, x) ==
    CASE name = "exp" -> exp_def(x[1])
      [] name = "log" -> log_def(x[1])
      [] name = "norm_cdf" -> norm_cdf_def(x[1])
      [] name = "black_scholes_merton" ->
            black_scholes_merton_def(x[1], x[2], x[3], x[4], x[5], x[6])
      [] name = "binomial_option_price" ->
            binomial_option_price_def(x[1], x[2], x[3], x[4], x[5], x[6],
                                      x[7], x[8], x[9])
      [] name = "binomial_locals" ->
            binomial_locals_def(x[1], x[2], x[3], x[4], x[5], x[6], x[7],
                                x[8])
      [] name = "BatesTerm" ->
            BatesTerm_def(x[1], x[2], x[3], x[4], x[5], x[6], x[7], x[8],
                          x[9], x[10])
      [] name = "bates_simplified" ->
            bates_simplified_def(x[1], x[2], x[3], x[4], x[5], x[6], x[7],
                                 x[8], x[9])
      [] name = "get_options_data" ->
            get_options_data_def(x[1], x[2], x[3], x[4], x[5], x[6], x[7])

----------------------------------------------------------------------------
(* stockr/analysis/providers and stockr/analysis/data_manager.py          *)
(* A provider object is a record; an optional value is a sequence of at    *)
(* most one element; keyword arguments are a set of <<name, value>> pairs. *)

\* a str that is None
None == "None"

\* bool(x) of a str or None
Truthy(x) == x # None /\ x # ""

\* _current_provider = None
NoProvider == [kind |-> "None", api_key |-> None]

\* a raised exception; cause is the exception the handler wrapped, if any
Throw(error, cause) == [raised |-> TRUE, error |-> error, cause |-> cause]

\* the names of the keyword arguments and the value of one of them
Keywords(kwargs) == {kw[1] : kw \in kwargs}
KeywordValue(kwargs, name) == (CHOOSE kw \in kwargs : kw[1] = name)[2]

\* YFinanceProvider()
YFinanceProvider == [kind |-> "yfinance", api_key |-> None]

\* PolygonProvider(**kwargs) with os.environ.get("POLYGON_API_KEY") = environ
PolygonProvider(kwargs, environ) ==
    IF ~(Keywords(kwargs) \subseteq {"api_key"})
    THEN Throw("TypeError", None)
    ELSE LET api_key == IF "api_key" \in Keywords(kwargs)
                        THEN KeywordValue(kwargs, "api_key") ELSE None
             key == IF Truthy(api_key) THEN api_key ELSE environ
         IN  IF ~Truthy(key) THEN Throw("ValueError", None)
             ELSE [raised |-> FALSE,
                   provider |-> [kind |-> "polygon", api_key |-> key]]

\* a polygon provider for every name that is not 'yfinance'
get_provider_polygon_otherwise(provider_name, kwargs, environ) ==
    IF provider_name = "yfinance"
    THEN [raised |-> FALSE, provider |-> YFinanceProvider]
    ELSE PolygonProvider(kwargs, environ)

get_provider(provider_name, kwargs, environ) ==
    IF provider_name = "yfinance"
    THEN [raised |-> FALSE, provider |-> YFinanceProvider]
    ELSE IF provider_name = "polygon"
    THEN PolygonProvider(kwargs, environ)
    ELSE Throw("ValueError", None)

\* a Yahoo Finance provider whatever the default is
get_default_provider_always_yahoo(current) == YFinanceProvider

\* get_default_provider(): the provider returned, which is also the value
\* of _current_provider afterwards
get_default_provider(current) ==
    IF current = NoProvider THEN YFinanceProvider ELSE current

\* the named provider also becomes the default
data_provider_replaces_default(provider, kwargs, environ, current) ==
    IF Truthy(provider)
    THEN LET got == get_provider(provider, kwargs, environ)
         IN  IF got.raised
             THEN [raised |-> TRUE, error |-> got.error,
                   data_provider |-> NoProvider, current_provider |-> current]
             ELSE [raised |-> FALSE, error |-> None,
                   data_provider |-> got.provider,
                   current_provider |-> got.provider]
    ELSE [raised |-> FALSE, error |-> None,
          data_provider |-> get_default_provider(current),
          current_provider |-> get_default_provider(current)]

\* "if provider: data_provider = get_provider(provider, **kwargs) else:
\* data_provider = get_default_provider()": the provider of one
\* data_manager call and the value of _current_provider after it
data_provider(provider, kwargs, environ, current) ==
    IF Truthy(provider)
    THEN LET got == get_provider(provider, kwargs, environ)
         IN  IF got.raised
             THEN [raised |-> TRUE, error |-> got.error,
                   data_provider |-> NoProvider, current_provider |-> current]
             ELSE [raised |-> FALSE, error |-> None,
                   data_provider |-> got.provider,
                   current_provider |-> current]
    ELSE [raised |-> FALSE, error |-> None,
          data_provider |-> get_default_provider(current),
          current_provider |-> get_default_provider(current)]

\* provider objects are numbered in the order of their construction, which
\* stands for id(): "constructed" counts them, "default" is the number of the
\* object _current_provider refers to, 0 for None
Objects(constructed, default) == [constructed |-> constructed, default |-> default]

\* no provider object yet, _current_provider = None
NoObjects == Objects(0, 0)

\* a constructor call returned and, if installed, the new object became the
\* default
Constructed(objects, installed) ==
    Objects(objects.constructed + 1,
            IF installed THEN objects.constructed + 1 ELSE objects.default)

\* the provider objects after get_provider(provider_name, **kwargs)
objects_get_provider(provider_name, kwargs, environ, objects) ==
    IF get_provider(provider_name, kwargs, environ).raised THEN objects
    ELSE Constructed(objects, FALSE)

\* a failed set_default_provider resets the default to None
set_default_provider_resets(provider_name, kwargs, environ, current, objects) ==
    LET got == get_provider(provider_name, kwargs, environ)
    IN  IF got.raised
        THEN [current_provider |-> NoProvider,
              objects |-> Objects(objects.constructed, 0)]
        ELSE [current_provider |-> got.provider,
              objects |-> Constructed(objects, TRUE)]

\* set_default_provider: "_current_provider = get_provider(provider_name,
\* **kwargs)"; the assignment does not happen when get_provider raises
set_default_provider(provider_name, kwargs, environ, current, objects) ==
    LET got == get_provider(provider_name, kwargs, environ)
    IN  IF got.raised
        THEN [current_provider |-> current, objects |-> objects]
        ELSE [current_provider |-> got.provider,
              objects |-> Constructed(objects, TRUE)]

\* the provider objects after get_default_provider()
objects_get_default_provider(current, objects) ==
    IF current = NoProvider THEN Constructed(objects, TRUE) ELSE objects

\* the provider objects after the provider of a data_manager call was
\* obtained
objects_data_provider(provider, kwargs, environ, current, objects) ==
    IF Truthy(provider)
    THEN objects_get_provider(provider, kwargs, environ, objects)
    ELSE objects_get_default_provider(current, objects)

\* the modules of the package stockr.analysis that an import can find
Modules == {"stockr.analysis.data", "stockr.analysis.data_manager",
            "stockr.analysis.options", "stockr.analysis.providers",
            "stockr.analysis.volatility"}

\* import of a module of the package: ModuleNotFoundError when it is not
\* there
import_module(name) == name \in Modules

\* "Final fallback to a reasonable default": 0.05
DefaultRate == F(5, -2)

\* the sources consulted, in order, and the rate returned
Rate(tried, rate) == [raised |-> FALSE, tried |-> tried, rate |-> rate]

\* an exception raised while the last of the sources was consulted
RateError(tried) == [raised |-> TRUE, tried |-> tried, rate |-> NaN]

\* a handler that lets the exception through
except_Exception_reraise(outcome) == outcome

\* "except Exception: return 0.05" around a try block with this outcome
except_Exception(outcome) ==
    IF outcome.raised THEN Rate(outcome.tried, DefaultRate) ELSE outcome

\* the try block of the Yahoo Finance rate when the ^IRX quote is yahoo:
\* status "raises" (yf raises), "none" (no regularMarketPrice) or "value"
yahoo_try(yahoo) ==
    IF yahoo.status = "raises" THEN RateError(<<"yahoo">>)
    ELSE IF yahoo.status = "value"
    THEN Rate(<<"yahoo">>, Div(yahoo.value, Hundred))
    ELSE Rate(<<"yahoo">>, DefaultRate)

\* YFinanceProvider.get_risk_free_rate()
yfinance_get_risk_free_rate(yahoo) == except_Exception(yahoo_try(yahoo))

\* stockr.analysis.data.get_risk_free_rate(), the module-level function
data_get_risk_free_rate(yahoo) == except_Exception(yahoo_try(yahoo))

\* the fallback of PolygonProvider.get_risk_free_rate after the Polygon and
\* the FRED attempts: the import of line 145, then the Yahoo provider
yahoo_fallback(yahoo) ==
    IF import_module("stockr.analysis.data_providers")
    THEN [yfinance_get_risk_free_rate(yahoo) EXCEPT
              !.tried = <<"polygon", "fred", "yahoo">>]
    ELSE RateError(<<"polygon", "fred">>)

\* the outer try block of PolygonProvider.get_risk_free_rate when the
\* answers of the three sources are polygon (status "raises", "empty" or
\* "value"), fred (status "raises", "not200", "unparseable" or "value", the
\* first three caught or passed over inside the block) and yahoo
polygon_try(polygon, fred, yahoo) ==
    IF polygon.status = "raises" THEN RateError(<<"polygon">>)
    ELSE IF polygon.status = "value"
    THEN Rate(<<"polygon">>, Div(polygon.value, Hundred))
    ELSE IF fred.status = "value"
    THEN Rate(<<"polygon", "fred">>, Div(fred.value, Hundred))
    ELSE yahoo_fallback(yahoo)

\* PolygonProvider.get_risk_free_rate()
polygon_get_risk_free_rate(polygon, fred, yahoo) ==
    except_Exception(polygon_try(polygon, fred, yahoo))

\* sorted(days): insertion of one element into a sorted sequence, and the
\* sort itself
RECURSIVE Insert(_, _)
Insert(sorted, d) ==
    IF sorted = <<>> THEN <<d>>
    ELSE IF d < Head(sorted) THEN <<d>> \o sorted
    ELSE <<Head(sorted)>> \o Insert(Tail(sorted), d)

RECURSIVE Sorted(_)
Sorted(days) ==
    IF days = <<>> THEN <<>>
    ELSE Insert(Sorted(SubSeq(days, 1, Len(days) - 1)), days[Len(days)])

\* set(...) then sorted(list(...)): the distinct elements in ascending order
RECURSIVE Distinct(_)
Distinct(sorted) ==
    IF Len(sorted) < 2 THEN sorted
    ELSE IF sorted[1] = sorted[2] THEN Distinct(Tail(sorted))
    ELSE <<sorted[1]>> \o Distinct(Tail(sorted))

target_min_days == 30
target_max_days == 45

\* seq.sort(key=lambda x: abs(x[1] - target)); seq[0]: the first element
\* of minimal distance to target
RECURSIVE ClosestTo(_, _, _, _)
ClosestTo(seq, target, i, best) ==
    IF i > Len(seq) THEN seq[best]
    ELSE IF AbsI(seq[i] - target) < AbsI(seq[best] - target)
         THEN ClosestTo(seq, target, i + 1, i)
         ELSE ClosestTo(seq, target, i + 1, best)

\* the selection of an expiration when no date was asked for; an
\* expiration date is represented by its days to expiry, expirations is the
\* list the provider holds (non-empty)
choose_expiration(expirations) ==
    LET expiry_dates == Sorted(expirations)
        future_expiries == SelectSeq(expiry_dates, LAMBDA d : d > 0)
        target_expiries ==
            SelectSeq(future_expiries, LAMBDA d : d >= target_min_days)
        ideal_expiries ==
            SelectSeq(target_expiries, LAMBDA d : d <= target_max_days)
    IN  IF future_expiries = <<>> THEN expirations[Len(expirations)]
        ELSE IF target_expiries = <<>>
        THEN future_expiries[Len(future_expiries)]
        ELSE IF ideal_expiries # <<>>
        THEN ClosestTo(ideal_expiries, target_min_days, 2, 1)
        ELSE ClosestTo(target_expiries, target_max_days, 2, 1)

\* selected_expiration before the chain is fetched: assigned only when no
\* date was asked for (expiration_date is None, the empty sequence);
\* otherwise the name is unbound
selected_expiration(expirations, expiration_date) ==
    IF expiration_date = <<>>
    THEN [bound |-> TRUE, value |-> choose_expiration(expirations)]
    ELSE [bound |-> FALSE, value |-> 0]

\* the contracts of one expiration that the market lists
Contract(contract_type, strike, expiration) ==
    [contract_type |-> contract_type, strike |-> strike,
     expiration |-> expiration]
ContractsOf(expiration, listed) ==
    IF listed = "none" THEN <<>>
    ELSE IF listed = "calls"
    THEN <<Contract("call", 100, expiration), Contract("call", 110, expiration)>>
    ELSE <<Contract("call", 100, expiration), Contract("put", 90, expiration),
           Contract("call", 110, expiration)>>

\* the rows of one type
OfType(contracts, contract_type) ==
    SelectSeq(contracts, LAMBDA c : c.contract_type = contract_type)

\* YFinanceProvider.get_options_chain(ticker, expiration_date) when
\* stock.options = expirations and the market lists the contracts "listed"
\* for every expiration
yfinance_get_options_chain(expirations, listed, expiration_date) ==
    LET selected == selected_expiration(expirations, expiration_date)
        contracts == ContractsOf(selected.value, listed)
    IN  IF expirations = <<>> THEN Throw("Exception", "ValueError")
        ELSE IF ~selected.bound THEN Throw("Exception", "UnboundLocalError")
        ELSE [raised |-> FALSE,
              selected_expiration |-> selected.value,
              calls |-> OfType(contracts, "call"),
              puts |-> OfType(contracts, "put")]

\* PolygonProvider.get_options_chain(ticker, expiration_date) when the
\* contracts of the reference endpoint carry the expiration dates
\* expirations and the market lists the contracts "listed" for every
\* expiration
polygon_get_options_chain(all_expirations, listed, expiration_date) ==
    LET expirations == Distinct(Sorted(all_expirations))
        selected == selected_expiration(expirations, expiration_date)
        contracts == ContractsOf(selected.value, listed)
    IN  IF expirations = <<>> THEN Throw("Exception", "ValueError")
        ELSE IF ~selected.bound THEN Throw("Exception", "UnboundLocalError")
        ELSE IF contracts = <<>> THEN Throw("Exception", "ValueError")
        ELSE [raised |-> FALSE,
              selected_expiration |-> selected.value,
              calls |-> OfType(contracts, "call"),
              puts |-> OfType(contracts, "put")]

\* get_options_chain of a provider object
provider_get_options_chain(provider, expirations, listed, expiration_date) ==
    IF provider.kind = "polygon"
    THEN polygon_get_options_chain(expirations, listed, expiration_date)
    ELSE yfinance_get_options_chain(expirations, listed, expiration_date)

\* get_risk_free_rate of a provider object
provider_get_risk_free_rate(provider, polygon, fred, yahoo) ==
    IF provider.kind = "polygon"
    THEN polygon_get_risk_free_rate(polygon, fred, yahoo)
    ELSE yfinance_get_risk_free_rate(yahoo)

\* get_stock_data of a provider object when the history the source holds
\* is "rows" or "empty": the tuple, tagged with the source, or the raised
\* exception
provider_get_stock_data(provider, history) ==
    IF history = "empty" THEN Throw("Exception", "ValueError")
    ELSE [raised |-> FALSE, source |-> provider.kind,
          historical_data |-> history]

----------------------------------------------------------------------------
(* The inputs of the calls.                                                *)

MaxSteps == 3
\* provider objects constructed in one run
MaxObjects == 3

OptionTypes == {"call", "put"}
Spots == {F(100, 0)}
Strikes == {F(90, 0), F(100, 0), F(110, 0)}
Times == {F(25, -2), F(1, 0), F(12, 0)}
Rates == {F(5, -2)}
\* 30 days in years, the expiration of the reference scenario
ScenarioTime == Div(F(30, 0), F(365, 0))
AnalyticTimes == Times \cup {ScenarioTime}
\* 0, 0.5, 1, 1.5 (decimal form) and 20, 150 (percentage points)
Sigmas == {Zero, F(5, -1), One, F(15, -1), F(20, 0), F(150, 0)}
Yields == {Zero, F(3, -2)}
Lambdas == {Zero, One, F(2, 0)}

Row(strike) == [strike |-> FromInt(strike), lastPrice |-> F(25, -1),
                impliedVolatility |-> F(3, -1)]
\* days to expiry of stock.options, in the order of the tuple
ExpirationLists == {<<>>, <<7, 35, 70>>, <<7, 21>>, <<70, 35>>, <<28, 21>>}
CallChains == {<<>>, <<Row(100), Row(110), Row(120)>>, <<Row(90), Row(100)>>}
PutChains == {<<>>, <<Row(80), Row(90), Row(100)>>}
\* trailing volatilities in percentage points; NaN is the standard deviation
\* of fewer than two returns
Volatilities == {NaN, Zero, F(5, -1), F(10, 0), F(20, 0), F(150, 0)}
Faults == {"none", "bsm_call", "bsm_put", "bin_call", "bin_put",
           "bates_call", "bates_put"}

\* the inputs of the provider layer
ProviderNames == {None, "", "yfinance", "polygon", "YFinance", "alphavantage"}
KeywordSets == {{}, {<<"api_key", "KEY">>}, {<<"api_key", "">>},
                {<<"timeout", "5">>}}
Environs == {None, "ENVKEY"}
Answer(status, value) == [status |-> status, value |-> value]
\* quotes in percentage points
PolygonAnswers == {Answer("raises", Zero), Answer("empty", Zero),
                   Answer("value", F(42, -1))}
FredAnswers == {Answer("raises", Zero), Answer("not200", Zero),
                Answer("unparseable", Zero), Answer("value", F(45, -1))}
YahooAnswers == {Answer("raises", Zero), Answer("none", Zero),
                 Answer("value", F(43, -1))}
\* days to expiry of the dates a source lists, in the order it lists them
ListedExpirations == {<<>>, <<7, 35, 70>>, <<70, 35, 7>>, <<7, 21>>,
                      <<21, 7>>, <<50, 60>>, <<-7, 0>>, <<0, -7>>,
                      <<35, 7, 35>>}
\* the date asked for: none, one that is listed, one that is not
ExpirationDates == {<<>>, <<35>>, <<14>>}
Listings == {"none", "calls", "both"}
Histories == {"rows", "empty"}

\* concurrent invocations of get_options_data and what the market holds
\* while they run
Threads == {"A", "B"}
ConcurrentSpots == {F(100, 0), F(110, 0)}
MarketExpirations == <<7, 35, 70>>
MarketCalls == <<Row(100), Row(110), Row(120)>>
MarketPuts == <<Row(80), Row(90), Row(100)>>
MarketVolatility == F(20, 0)
MarketRate == F(5, -2)

----------------------------------------------------------------------------
(* The state: the call in progress ("none" between calls), its arguments   *)
(* and what it returned; the default provider and the provider objects     *)
(* constructed so far; the concurrent invocations; the pricer call that is  *)
(* followed iteration by iteration; the interactive shell.                 *)

VARIABLES fn, args, ret, current_provider, objects, invocation, frames, loop,
          shell

vars == <<fn, args, ret, current_provider, objects, invocation, frames,
         loop, shell>>

\* the state of the concurrent invocations
concurrent_vars == <<invocation, frames>>

\* a pricer call followed iteration by iteration: where it is (pc "idle",
\* "induction", "mixture", "returned" or "raised"), its arguments, the locals
\* computed before the loop, the loop indices, the iterations counted
\* (updates of a lattice node, evaluations of a mixture term), the array and
\* the accumulated price
Loop(pc, name, call, locals, i, j, n, option_values, option_price) ==
    [pc |-> pc, fn |-> name, call |-> call, locals |-> locals, i |-> i,
     j |-> j, n |-> n, updates |-> 0, evaluations |-> 0,
     option_values |-> option_values, option_price |-> option_price]

\* what prompt() gave: a line of text (a sequence of characters) or the
\* exception "KeyboardInterrupt" or "EOFError"
Entered(event, text) == [event |-> event, text |-> text]

\* the interactive shell: where it is (pc "off", "prompt", "analyze" or
\* "exited"), what the last prompt gave, how the last analyze_ticker call
\* ended, the prompts shown and the analyze_ticker calls made so far
Shell(pc, entered, result, prompts, analyses) ==
    [pc |-> pc, entered |-> entered, result |-> result, prompts |-> prompts,
     analyses |-> analyses]

\* run_interactive_shell has not been called
NoShell == Shell("off", Entered("none", <<>>), "none", 0, 0)

\* no call is being followed
Idle == Loop("idle", "none", <<>>, <<>>, 0, 0, 0, <<>>, Zero)

Init ==
    /\ fn = "none"
    /\ args = <<>>
    /\ ret = <<>>
    /\ current_provider = NoProvider
    /\ objects = NoObjects
    /\ invocation = [t \in Threads |-> [pc |-> "idle"]]
    /\ frames = [t \in Threads |->
                    [calls |-> Frame(MarketCalls), puts |-> Frame(MarketPuts)]]
    /\ loop = Idle
    /\ shell = NoShell

Call_black_scholes_merton ==
    \E S \in Spots, K \in Strikes, T \in AnalyticTimes, r \in Rates,
       sigma \in Sigmas, option_type \in OptionTypes :
        /\ fn = "none"
        /\ fn' = "black_scholes_merton"
        /\ args' = [S |-> S, K |-> K, T |-> T, r |-> r, sigma |-> sigma,
                    option_type |-> option_type]
        /\ ret' = black_scholes_merton(S, K, T, r, sigma, option_type)
        /\ UNCHANGED <<current_provider, objects, concurrent_vars, loop, shell>>

Call_binomial_option_price ==
    \E S \in Spots, K \in Strikes, T \in Times, r \in Rates,
       sigma \in Sigmas, option_type \in OptionTypes,
       steps \in 1..MaxSteps, american \in BOOLEAN,
       dividend_yield \in Yields :
        /\ fn = "none"
        /\ fn' = "binomial_option_price"
        /\ args' = [S |-> S, K |-> K, T |-> T, r |-> r, sigma |-> sigma,
                    option_type |-> option_type, steps |-> steps,
                    american |-> american,
                    dividend_yield |-> dividend_yield]
        /\ ret' = binomial_option_price(S, K, T, r, sigma, option_type,
                                        steps, american, dividend_yield)
        /\ UNCHANGED <<current_provider, objects, concurrent_vars, loop, shell>>

Call_bates_simplified ==
    \E S \in Spots, K \in Strikes, T \in Times, r \in Rates,
       sigma \in Sigmas, option_type \in OptionTypes,
       lambda_param \in Lambdas :
        /\ fn = "none"
        /\ fn' = "bates_simplified"
        /\ args' = [S |-> S, K |-> K, T |-> T, r |-> r, sigma |-> sigma,
                    option_type |-> option_type,
                    lambda_param |-> lambda_param, mu_j |-> DefaultMuJ,
                    sigma_j |-> DefaultSigmaJ]
        /\ ret' = bates_simplified(S, K, T, r, sigma, lambda_param,
                                   DefaultMuJ, DefaultSigmaJ, option_type)
        /\ UNCHANGED <<current_provider, objects, concurrent_vars, loop, shell>>

Call_bates_approximation ==
    \E S \in Spots, K \in Strikes, T \in Times, r \in Rates,
       sigma \in Sigmas, option_type \in OptionTypes :
        /\ fn = "none"
        /\ fn' = "bates_approximation"
        /\ args' = [S |-> S, K |-> K, T |-> T, r |-> r, sigma |-> sigma,
                    option_type |-> option_type]
        /\ ret' = bates_approximation(S, K, T, r, sigma, option_type)
        /\ UNCHANGED <<current_provider, objects, concurrent_vars, loop, shell>>

Call_get_options_data ==
    \E current_price \in Spots, annual_volatility \in Volatilities,
       expirations \in ExpirationLists, calls \in CallChains,
       puts \in PutChains, risk_free_rate \in Rates, fault \in Faults :
        /\ fn = "none"
        /\ fn' = "get_options_data"
        /\ args' = [current_price |-> current_price,
                    annual_volatility |-> annual_volatility,
                    expirations |-> expirations, calls |-> calls,
                    puts |-> puts, risk_free_rate |-> risk_free_rate,
                    fault |-> fault]
        /\ ret' = get_options_data(current_price, annual_volatility,
                                   expirations, calls, puts, risk_free_rate,
                                   fault)
        /\ UNCHANGED <<current_provider, objects, concurrent_vars, loop, shell>>

\* the caller takes the result; the next call starts from scratch (only the
\* default provider outlives a call)
Return ==
    /\ fn # "none"
    /\ fn' = "none"
    /\ args' = <<>>
    /\ ret' = <<>>
    /\ UNCHANGED <<current_provider, objects, concurrent_vars, loop, shell>>

Next ==
    \/ Return
    \/ Call_black_scholes_merton
    \/ Call_binomial_option_price
    \/ Call_get_options_data
    \/ Call_bates_approximation
    \/ Call_bates_simplified

Spec == Init /\ [][Next]_vars

----------------------------------------------------------------------------
(* The calls of the provider layer (data_manager.py and the providers).    *)
(* The comparator does not go through it: options.py reads Yahoo Finance   *)
(* itself.                                                                 *)

Call_get_provider ==
    \E provider_name \in ProviderNames, kwargs \in KeywordSets,
       environ \in Environs :
        /\ fn = "none"
        /\ fn' = "get_provider"
        /\ args' = [provider_name |-> provider_name, kwargs |-> kwargs,
                    environ |-> environ]
        /\ ret' = get_provider(provider_name, kwargs, environ)
        /\ objects' = objects_get_provider(provider_name, kwargs, environ,
                                           objects)
        /\ objects'.constructed <= MaxObjects
        /\ UNCHANGED <<current_provider, concurrent_vars, loop, shell>>

Call_set_default_provider ==
    \E provider_name \in ProviderNames, kwargs \in KeywordSets,
       environ \in Environs :
        LET got == get_provider(provider_name, kwargs, environ)
            set == set_default_provider(provider_name, kwargs, environ,
                                        current_provider, objects)
        IN  /\ fn = "none"
            /\ fn' = "set_default_provider"
            /\ args' = [provider_name |-> provider_name, kwargs |-> kwargs,
                        environ |-> environ]
            /\ ret' = got
            /\ current_provider' = set.current_provider
            /\ objects' = set.objects
            /\ objects'.constructed <= MaxObjects
            /\ UNCHANGED <<concurrent_vars, loop, shell>>

Call_get_default_provider ==
    /\ fn = "none"
    /\ fn' = "get_default_provider"
    /\ args' = <<>>
    /\ objects' = objects_get_default_provider(current_provider, objects)
    /\ objects'.constructed <= MaxObjects
    /\ current_provider' = get_default_provider(current_provider)
    /\ ret' = [raised |-> FALSE,
               provider |-> get_default_provider(current_provider),
               id |-> objects'.default]
    /\ UNCHANGED <<concurrent_vars, loop, shell>>

Call_get_stock_data ==
    \E provider \in ProviderNames, kwargs \in KeywordSets,
       environ \in Environs, history \in Histories :
        LET dp == data_provider(provider, kwargs, environ, current_provider)
        IN  /\ fn = "none"
            /\ fn' = "data_manager.get_stock_data"
            /\ args' = [provider |-> provider, kwargs |-> kwargs,
                        environ |-> environ, history |-> history]
            /\ ret' = IF dp.raised THEN Throw(dp.error, None)
                      ELSE provider_get_stock_data(dp.data_provider, history)
            /\ current_provider' = dp.current_provider
            /\ objects' = objects_data_provider(provider, kwargs, environ,
                                                current_provider, objects)
            /\ objects'.constructed <= MaxObjects
            /\ UNCHANGED <<concurrent_vars, loop, shell>>

Call_get_risk_free_rate ==
    \E provider \in ProviderNames, kwargs \in KeywordSets,
       environ \in Environs, polygon \in PolygonAnswers,
       yahoo \in YahooAnswers :
        LET dp == data_provider(provider, kwargs, environ, current_provider)
            fred == Answer("not200", Zero)
        IN  /\ fn = "none"
            /\ fn' = "data_manager.get_risk_free_rate"
            /\ args' = [provider |-> provider, kwargs |-> kwargs,
                        environ |-> environ, polygon |-> polygon,
                        fred |-> fred, yahoo |-> yahoo]
            /\ ret' = IF dp.raised THEN Throw(dp.error, None)
                      ELSE provider_get_risk_free_rate(dp.data_provider,
                               polygon, fred, yahoo)
            /\ current_provider' = dp.current_provider
            /\ objects' = objects_data_provider(provider, kwargs, environ,
                                                current_provider, objects)
            /\ objects'.constructed <= MaxObjects
            /\ UNCHANGED <<concurrent_vars, loop, shell>>

Call_get_options_chain ==
    \E provider \in ProviderNames, kwargs \in KeywordSets,
       environ \in Environs, expirations \in ListedExpirations,
       expiration_date \in ExpirationDates :
        LET dp == data_provider(provider, kwargs, environ, current_provider)
            listed == "both"
        IN  /\ fn = "none"
            /\ fn' = "data_manager.get_options_chain"
            /\ args' = [provider |-> provider, kwargs |-> kwargs,
                        environ |-> environ, expirations |-> expirations,
                        listed |-> listed,
                        expiration_date |-> expiration_date]
            /\ ret' = IF dp.raised THEN Throw(dp.error, None)
                      ELSE provider_get_options_chain(dp.data_provider,
                               expirations, listed, expiration_date)
            /\ current_provider' = dp.current_provider
            /\ objects' = objects_data_provider(provider, kwargs, environ,
                                                current_provider, objects)
            /\ objects'.constructed <= MaxObjects
            /\ UNCHANGED <<concurrent_vars, loop, shell>>

\* stockr.analysis.data.get_risk_free_rate(), which options.py and cli.py call
Call_data_get_risk_free_rate ==
    \E yahoo \in YahooAnswers :
        /\ fn = "none"
        /\ fn' = "data.get_risk_free_rate"
        /\ args' = [yahoo |-> yahoo]
        /\ ret' = data_get_risk_free_rate(yahoo)
        /\ UNCHANGED <<current_provider, objects, concurrent_vars, loop, shell>>

\* YFinanceProvider().get_risk_free_rate()
Call_YFinanceProvider_get_risk_free_rate ==
    \E yahoo \in YahooAnswers :
        /\ fn = "none"
        /\ fn' = "YFinanceProvider.get_risk_free_rate"
        /\ args' = [yahoo |-> yahoo]
        /\ ret' = yfinance_get_risk_free_rate(yahoo)
        /\ UNCHANGED <<current_provider, objects, concurrent_vars, loop, shell>>

\* PolygonProvider(api_key).get_risk_free_rate()
Call_PolygonProvider_get_risk_free_rate ==
    \E polygon \in PolygonAnswers, fred \in FredAnswers,
       yahoo \in YahooAnswers :
        /\ fn = "none"
        /\ fn' = "PolygonProvider.get_risk_free_rate"
        /\ args' = [polygon |-> polygon, fred |-> fred, yahoo |-> yahoo]
        /\ ret' = polygon_get_risk_free_rate(polygon, fred, yahoo)
        /\ UNCHANGED <<current_provider, objects, concurrent_vars, loop, shell>>

\* YFinanceProvider().get_options_chain(ticker, expiration_date)
Call_YFinanceProvider_get_options_chain ==
    \E expirations \in ListedExpirations, listed \in Listings,
       expiration_date \in ExpirationDates :
        /\ fn = "none"
        /\ fn' = "YFinanceProvider.get_options_chain"
        /\ args' = [expirations |-> expirations, listed |-> listed,
                    expiration_date |-> expiration_date]
        /\ ret' = yfinance_get_options_chain(expirations, listed,
                                             expiration_date)
        /\ UNCHANGED <<current_provider, objects, concurrent_vars, loop, shell>>

\* PolygonProvider(api_key).get_options_chain(ticker, expiration_date)
Call_PolygonProvider_get_options_chain ==
    \E expirations \in ListedExpirations, listed \in Listings,
       expiration_date \in ExpirationDates :
        /\ fn = "none"
        /\ fn' = "PolygonProvider.get_options_chain"
        /\ args' = [expirations |-> expirations, listed |-> listed,
                    expiration_date |-> expiration_date]
        /\ ret' = polygon_get_options_chain(expirations, listed,
                                            expiration_date)
        /\ UNCHANGED <<current_provider, objects, concurrent_vars, loop, shell>>

ProviderNext ==
    \/ Return
    \/ Call_get_provider
    \/ Call_set_default_provider
    \/ Call_get_default_provider
    \/ Call_get_stock_data
    \/ Call_get_risk_free_rate
    \/ Call_get_options_chain
    \/ Call_data_get_risk_free_rate
    \/ Call_YFinanceProvider_get_risk_free_rate
    \/ Call_PolygonProvider_get_risk_free_rate
    \/ Call_YFinanceProvider_get_options_chain
    \/ Call_PolygonProvider_get_options_chain

ProviderSpec == Init /\ [][ProviderNext]_vars

----------------------------------------------------------------------------
(* Concurrent invocations of get_options_data, statement by statement.     *)
(* An invocation goes idle -> fetched -> call_diff -> call_picked ->       *)
(* put_diff -> put_picked -> done.                                         *)

Invocation(pc, current_price, closest_call, closest_put, result) ==
    [pc |-> pc, current_price |-> current_price,
     closest_call |-> closest_call, closest_put |-> closest_put,
     result |-> result]

\* lines 29-65: the Ticker, the expirations and the chain frames
Fetch(t) ==
    \E current_price \in ConcurrentSpots :
        /\ invocation[t].pc = "idle"
        /\ invocation' = [invocation EXCEPT ![t] =
               Invocation("fetched", current_price, <<>>, <<>>, <<>>)]
        /\ UNCHANGED <<fn, args, ret, current_provider, objects, frames, loop,
                   shell>>

\* line 71: calls_df["strike_diff"] = abs(calls_df["strike"] - target)
WriteCallDiff(t) ==
    /\ invocation[t].pc = "fetched"
    /\ frames' = [frames EXCEPT ![frames_of(t)].calls.strike_diff =
           strike_diff(frames[frames_of(t)].calls.rows,
                       Mul(invocation[t].current_price, F(110, -2)))]
    /\ invocation' = [invocation EXCEPT ![t].pc = "call_diff"]
    /\ UNCHANGED <<fn, args, ret, current_provider, objects, loop, shell>>

\* line 72: closest_call = calls_df.loc[calls_df["strike_diff"].idxmin()]
PickCall(t) ==
    /\ invocation[t].pc = "call_diff"
    /\ invocation' = [invocation EXCEPT
           ![t].pc = "call_picked",
           ![t].closest_call =
               LET calls_df == frames[frames_of(t)].calls
               IN  calls_df.rows[idxmin(calls_df.strike_diff, 2, 1)]]
    /\ UNCHANGED <<fn, args, ret, current_provider, objects, frames, loop,
                   shell>>

\* line 75: puts_df["strike_diff"] = abs(puts_df["strike"] - target)
WritePutDiff(t) ==
    /\ invocation[t].pc = "call_picked"
    /\ frames' = [frames EXCEPT ![frames_of(t)].puts.strike_diff =
           strike_diff(frames[frames_of(t)].puts.rows,
                       Mul(invocation[t].current_price, F(90, -2)))]
    /\ invocation' = [invocation EXCEPT ![t].pc = "put_diff"]
    /\ UNCHANGED <<fn, args, ret, current_provider, objects, loop, shell>>

\* line 76: closest_put = puts_df.loc[puts_df["strike_diff"].idxmin()]
PickPut(t) ==
    /\ invocation[t].pc = "put_diff"
    /\ invocation' = [invocation EXCEPT
           ![t].pc = "put_picked",
           ![t].closest_put =
               LET puts_df == frames[frames_of(t)].puts
               IN  puts_df.rows[idxmin(puts_df.strike_diff, 2, 1)]]
    /\ UNCHANGED <<fn, args, ret, current_provider, objects, frames, loop,
                   shell>>

\* lines 78-198: the pricers and the returned tuple, which read the two
\* rows picked and the scalars only
Price(t) ==
    /\ invocation[t].pc = "put_picked"
    /\ invocation' = [invocation EXCEPT
           ![t].pc = "done",
           ![t].result =
               get_options_data(invocation[t].current_price,
                   MarketVolatility, MarketExpirations,
                   <<invocation[t].closest_call>>,
                   <<invocation[t].closest_put>>, MarketRate, "none")]
    /\ UNCHANGED <<fn, args, ret, current_provider, objects, frames, loop,
                   shell>>

ConcurrentNext ==
    \E t \in Threads :
        \/ Fetch(t)
        \/ WriteCallDiff(t)
        \/ PickCall(t)
        \/ WritePutDiff(t)
        \/ PickPut(t)
        \/ Price(t)

ConcurrentSpec == Init /\ [][ConcurrentNext]_vars

-----------------------------------------------------------------------------
(* binomial_option_price and bates_simplified followed iteration by        *)
(* iteration: one step per node of the backward induction and one per term *)
(* of the mixture.                                                         *)

LoopTimes == {One, F(12, 0)}
LoopSigmas == {Zero, F(20, 0)}

\* binomial.py 33-61: the locals and the terminal values.  What each pass of
\* the inner loop writes is a function of the arguments; it is tabulated
\* here so that a step of the loop looks it up.
Begin_binomial_option_price ==
    \E S \in Spots, K \in Strikes, T \in LoopTimes, r \in Rates,
       sigma0 \in LoopSigmas, option_type \in OptionTypes,
       steps \in 1..MaxSteps, american \in BOOLEAN :
        LET locals == binomial_locals(S, K, T, r, sigma0, option_type, steps,
                                      american)
            call == [S |-> S, K |-> K, T |-> T, r |-> r, sigma |-> sigma0,
                     option_type |-> option_type, steps |-> steps,
                     american |-> american, dividend_yield |-> Zero]
        IN  /\ loop.pc = "idle"
            /\ loop' =
                 IF locals.raised
                 THEN Loop("raised", "binomial_option_price", call, <<>>,
                           0, 0, 0, <<>>, NaN)
                 ELSE Loop("induction", "binomial_option_price", call,
                           [u |-> locals.u, d |-> locals.d, p |-> locals.p,
                            df |-> locals.df, written |-> locals.written],
                           steps - 1, 0, 0, locals.terminal, NaN)
            /\ UNCHANGED <<fn, args, ret, current_provider, objects,
                           concurrent_vars, shell>>

\* binomial.py 65-80: one pass of the body of the inner loop
UpdateNode ==
    LET next == NextNode(loop.i, loop.j)
    IN  /\ loop.pc = "induction"
        /\ loop.i >= 0
        /\ loop' = [loop EXCEPT
               !.option_values[loop.j + 1] =
                   loop.locals.written[loop.updates + 1],
               !.updates = @ + 1,
               !.i = next[1],
               !.j = next[2]]
        /\ UNCHANGED <<fn, args, ret, current_provider, objects,
                       concurrent_vars, shell>>

\* binomial.py 83: return option_values[0]
Return_binomial_option_price ==
    /\ loop.pc = "induction"
    /\ loop.i < 0
    /\ loop' = [loop EXCEPT !.pc = "returned",
                            !.option_price = loop.option_values[1]]
    /\ UNCHANGED <<fn, args, ret, current_provider, objects, concurrent_vars,
                   shell>>

\* bates.py 37-48: the locals before the mixture loop.  What pass n of the
\* loop computes is a function of the arguments; it is tabulated here so that
\* a step of the loop looks it up.
Begin_bates_simplified ==
    \E S \in Spots, K \in Strikes, T \in LoopTimes, r \in Rates,
       sigma0 \in LoopSigmas, option_type \in OptionTypes,
       lambda_param \in Lambdas :
        /\ loop.pc = "idle"
        /\ loop' = Loop("mixture", "bates_simplified",
                        [S |-> S, K |-> K, T |-> T, r |-> r, sigma |-> sigma0,
                         option_type |-> option_type,
                         lambda_param |-> lambda_param, mu_j |-> DefaultMuJ,
                         sigma_j |-> DefaultSigmaJ],
                        [sigma |-> bates_sigma(sigma0),
                         term |-> [n \in 0..(max_jumps - 1) |->
                             BatesTerm(S, K, T, r, bates_sigma(sigma0),
                                       lambda_param, DefaultMuJ,
                                       DefaultSigmaJ, option_type, n)]],
                        0, 0, 0, <<>>, Zero)
        /\ UNCHANGED <<fn, args, ret, current_provider, objects,
                       concurrent_vars, shell>>

\* bates.py 51-75: one pass of the body of "for n in range(max_jumps)"
MixtureTerm ==
    LET t == loop.locals.term[loop.n]
    IN  /\ loop.pc = "mixture"
        /\ loop.n < max_jumps
        /\ loop' =
             IF t.skipped THEN [loop EXCEPT !.n = @ + 1]
             ELSE IF t.raised
             THEN [loop EXCEPT !.pc = "raised", !.evaluations = @ + 1,
                               !.option_price = NaN]
             ELSE [loop EXCEPT
                       !.n = @ + 1,
                       !.evaluations = @ + 1,
                       !.option_price = Add(@, Mul(t.jump_prob, t.bs_price))]
        /\ UNCHANGED <<fn, args, ret, current_provider, objects,
                       concurrent_vars, shell>>

\* bates.py 77: return option_price
Return_bates_simplified ==
    /\ loop.pc = "mixture"
    /\ loop.n >= max_jumps
    /\ loop' = [loop EXCEPT !.pc = "returned"]
    /\ UNCHANGED <<fn, args, ret, current_provider, objects, concurrent_vars,
                   shell>>

\* the caller has the price, or the exception
Leave ==
    /\ loop.pc \in {"returned", "raised"}
    /\ loop' = Idle
    /\ UNCHANGED <<fn, args, ret, current_provider, objects, concurrent_vars,
                   shell>>

\* the statements of a call that has begun
Iterate ==
    \/ UpdateNode
    \/ Return_binomial_option_price
    \/ MixtureTerm
    \/ Return_bates_simplified

LoopNext ==
    \/ Begin_binomial_option_price
    \/ Begin_bates_simplified
    \/ UpdateNode
    \/ Return_binomial_option_price
    \/ MixtureTerm
    \/ Return_bates_simplified
    \/ Leave

\* a call that has begun keeps executing: the interpreter runs the next
\* statement of a function that neither waits nor blocks
LoopSpec == Init /\ [][LoopNext]_vars /\ WF_vars(Iterate)

-----------------------------------------------------------------------------
(* stockr/cli.py: run_interactive_shell.  A line of text is a sequence of  *)
(* one-character strings.                                                  *)

\* prompts shown in one run of the shell
MaxPrompts == 3

UpperCase == <<"A", "B", "E", "I", "L", "P", "Q", "T", "U", "X", "Y">>
LowerCase == <<"a", "b", "e", "i", "l", "p", "q", "t", "u", "x", "y">>

\* str.lower() of one character and of a string
lower_char(c) ==
    IF \E k \in 1..Len(UpperCase) : UpperCase[k] = c
    THEN LowerCase[CHOOSE k \in 1..Len(UpperCase) : UpperCase[k] = c]
    ELSE c
lower(text) == [k \in 1..Len(text) |-> lower_char(text[k])]

\* the characters str.strip() removes
Whitespace == {" ", "\t"}

\* str.strip(): without the leading and the trailing whitespace
RECURSIVE lstrip(_)
lstrip(text) ==
    IF text # <<>> /\ Head(text) \in Whitespace THEN lstrip(Tail(text))
    ELSE text
RECURSIVE rstrip(_)
rstrip(text) ==
    IF text # <<>> /\ text[Len(text)] \in Whitespace
    THEN rstrip(SubSeq(text, 1, Len(text) - 1))
    ELSE text
strip(text) == rstrip(lstrip(text))

\* the exit test applied to the stripped line
is_exit_command_stripped(ticker) ==
    lower(strip(ticker)) \in {<<"e", "x", "i", "t">>, <<"q", "u", "i", "t">>,
                              <<"q">>, <<"b", "y", "e">>}

\* ticker.lower() in ['exit', 'quit', 'q', 'bye']
is_exit_command(ticker) ==
    lower(ticker) \in {<<"e", "x", "i", "t">>, <<"q", "u", "i", "t">>,
                       <<"q">>, <<"b", "y", "e">>}

\* "if not ticker.strip()": the empty string is false
is_empty_input(ticker) == strip(ticker) = <<>>

\* the lines a user may enter
Lines == {<<>>, <<" ">>, <<" ", "\t">>,
          <<"e", "x", "i", "t">>, <<"E", "X", "I", "T">>,
          <<"Q", "u", "i", "t">>, <<"q">>, <<"b", "y", "e">>,
          <<" ", "e", "x", "i", "t">>, <<"q", " ">>,
          <<"a", "a", "p", "l">>, <<"A", "A", "P", "L">>,
          <<"e", "x", "i", "t", "s">>}

\* what prompt() can give
Prompted ==
    {Entered("line", text) : text \in Lines}
        \cup {Entered("KeyboardInterrupt", <<>>), Entered("EOFError", <<>>)}

\* how analyze_ticker can end: it returns True, it returns False (its own
\* handler caught an Exception), or Ctrl+C interrupts it
Analyzed == {"True", "False", "KeyboardInterrupt"}

\* lines 564-569: the banner and the completer
Start_run_interactive_shell ==
    /\ shell.pc = "off"
    /\ shell' = [shell EXCEPT !.pc = "prompt"]
    /\ UNCHANGED <<fn, args, ret, current_provider, objects, concurrent_vars,
                   loop>>

\* lines 572-584 and 588-591: the prompt, the exit test, the empty-input
\* test, and the handler of KeyboardInterrupt and EOFError
Prompt ==
    \E entered \in Prompted :
        /\ shell.pc = "prompt"
        /\ shell.prompts < MaxPrompts
        /\ shell' = [shell EXCEPT
               !.entered = entered,
               !.prompts = @ + 1,
               !.pc = IF entered.event # "line" THEN "prompt"
                      ELSE IF is_exit_command(entered.text) THEN "exited"
                      ELSE IF is_empty_input(entered.text) THEN "prompt"
                      ELSE "analyze"]
        /\ UNCHANGED <<fn, args, ret, current_provider, objects,
                       concurrent_vars, loop>>

\* lines 587-591: analyze_ticker(ticker, console), and the handler when
\* Ctrl+C interrupts it
Analyze ==
    \E result \in Analyzed :
        /\ shell.pc = "analyze"
        /\ shell' = [shell EXCEPT !.result = result, !.analyses = @ + 1,
                                  !.pc = "prompt"]
        /\ UNCHANGED <<fn, args, ret, current_provider, objects,
                       concurrent_vars, loop>>

ShellNext ==
    \/ Start_run_interactive_shell
    \/ Prompt
    \/ Analyze

ShellSpec == Init /\ [][ShellNext]_vars

-----------------------------------------------------------------------------
(* Properties of the pricers and of the comparator.                        *)

Pricers == {"black_scholes_merton", "binomial_option_price",
            "bates_simplified", "bates_approximation"}
Sides == {"call", "put"}

\* get_options_data returned its tuple
Returned == fn = "get_options_data" /\ ~ret.raised

\* the returned dictionary of one side and what the pricers did for it
OptionOf(side) == IF side = "call" THEN ret.call_option ELSE ret.put_option
BsmOf(side) == IF side = "call" THEN ret.calls.bsm_call ELSE ret.calls.bsm_put
BinOf(side) == IF side = "call" THEN ret.calls.bin_call ELSE ret.calls.bin_put
BatesOf(side) ==
    IF side = "call" THEN ret.calls.bates_call ELSE ret.calls.bates_put
WarningsOf(side) == SelectSeq(ret.errors, LAMBDA w : w.side = side)

\* both Bates calls returned, so that the sanity check ran
SanityChecked ==
    Returned /\ ~ret.calls.bates_call.raised /\ ~ret.calls.bates_put.raised

\* the divergence rule, on the prices the pricers computed for one side
Diverges(side) ==
    LET bates_price == BatesOf(side).option_price
        bsm_price == BsmOf(side).option_price
    IN  \/ Gt(abs(Sub(bates_price, bsm_price)), bsm_price)
        \/ bates_price.nan

\* C1: when both Bates calls returned, for each side independently: if
\* |bates - bsm| > bsm or the Bates price is not finite, the returned
\* bates_price is the BSM price and exactly one warning for that side is in
\* errors; otherwise the returned bates_price is the computed Bates price and
\* no warning for that side is in errors.  The call warning precedes the put
\* warning, errors holds nothing else, and the divergence raises nothing.
C1_SanityFallback ==
    SanityChecked =>
        /\ \A side \in Sides :
              IF Diverges(side)
              THEN /\ OptionOf(side).bates_price = BsmOf(side).option_price
                   /\ Len(WarningsOf(side)) = 1
              ELSE /\ OptionOf(side).bates_price = BatesOf(side).option_price
                   /\ Len(WarningsOf(side)) = 0
        /\ ret.errors = WarningsOf("call") \o WarningsOf("put")

\* the fallback fired on the put, on a finite Bates price, and not on the
\* call
C1_Witness ==
    /\ SanityChecked
    /\ ~Diverges("call")
    /\ Diverges("put")
    /\ isfinite(BatesOf("put").option_price)
    /\ OptionOf("put").bates_price # BatesOf("put").option_price
    /\ OptionOf("call").bates_price # BsmOf("call").option_price

\* C2: every evaluated term of the Bates mixture discounts its strike with
\* the jump-compensated rate that its d1 uses: exp(-drift_adj * T), where
\* drift_adj = r - lambda * (exp(mu_j + sigma_j^2 / 2) - 1).
C2_DiscountUsesAdjustedDrift ==
    fn = "bates_simplified" /\ ~ret.raised =>
        \A k \in 1..Len(ret.terms) :
            ~ret.terms[k].skipped =>
                /\ ret.terms[k].rate_d =
                       adjusted_drift(args.r, args.lambda_param, args.mu_j,
                                      args.sigma_j)
                /\ ret.terms[k].discount =
                       exp(Neg(Mul(ret.terms[k].rate_d, args.T)))

\* the volatility the magnitude heuristic gives
Heuristic(sigma) == IF Gt(sigma, One) THEN Div(sigma, Hundred) ELSE sigma

\* C3: each of the three pricers uses sigma / 100 when sigma > 1 and sigma
\* unchanged when sigma <= 1.
C3_SameNormalization ==
    fn \in Pricers => ret.sigma = Heuristic(args.sigma)

\* C4: for every trailing volatility v > 0, get_options_data runs the three
\* pricers of a side at the same volatility, v converted once to decimal,
\* v / 100.
C4_SameVolatilityInComparator ==
    Returned /\ Gt(args.annual_volatility, Zero) =>
        \A side \in Sides :
            /\ BsmOf(side).sigma = Div(args.annual_volatility, Hundred)
            /\ BinOf(side).sigma = Div(args.annual_volatility, Hundred)
            /\ BatesOf(side).sigma = Div(args.annual_volatility, Hundred)

\* the length of one lattice step of the call in progress
StepLength == Div(args.T, FromInt(args.steps))

SamePrice(a, b) ==
    \/ a = b
    \/ Le(abs(Sub(a, b)), Mul(F(1, -3), max(abs(a), abs(b))))

\* C6: with jump intensity 0 the Bates pricer evaluates the n = 0 term only,
\* with weight 1 and volatility sigma, and returns the price of
\* black_scholes_merton for the same S, K, T, r, sigma and option type.
C6_NoJumpsIsAnalytic ==
    /\ fn = "bates_simplified"
    /\ IsZero(args.lambda_param)
    /\ Gt(args.sigma, Zero)
    => /\ ~ret.raised
       /\ \A k \in 1..Len(ret.terms) : ret.terms[k].skipped <=> k > 1
       /\ ret.terms[1].jump_prob = One
       /\ SamePrice(ret.option_price,
                    black_scholes_merton(args.S, args.K, args.T, args.r,
                        args.sigma, args.option_type).option_price)

\* a pricer call of get_options_data raised
PricerRaised ==
    /\ fn = "get_options_data"
    /\ IF ret.raised
       THEN ret.where \in {"bsm_call", "bsm_put", "bin_call", "bin_put"}
       ELSE ret.calls.bates_call.raised \/ ret.calls.bates_put.raised

\* C7 as stated: an error raised by any of the three pricers inside
\* get_options_data, the Bates pricer included, propagates to the caller.
C7_EveryPricerErrorPropagates == PricerRaised => ret.raised

\* the market data of the call in progress lets the pricers be reached
PricersReached ==
    /\ fn = "get_options_data"
    /\ args.expirations # <<>>
    /\ args.calls # <<>>
    /\ args.puts # <<>>

\* C7: an error raised by black_scholes_merton or binomial_option_price
\* inside get_options_data propagates to the caller; an error raised by the
\* Bates pricer is caught: both bates prices become the BSM prices, errors is
\* the single message "Bates process did not converge", and the function
\* returns.
C7_OnlyBatesErrorIsCaught ==
    /\ PricersReached
           /\ args.fault \in {"bsm_call", "bsm_put", "bin_call", "bin_put"}
           /\ ~IsZero(args.annual_volatility)
       => ret.raised /\ ret.where = args.fault
    /\ PricersReached /\ IsZero(args.annual_volatility)
       => ret.raised /\ ret.where \in {"bsm_call", "bsm_put"}
    /\ PricersReached
           /\ args.fault \in {"bates_call", "bates_put"}
           /\ ~IsZero(args.annual_volatility)
       => ~ret.raised
    /\ PricerRaised /\ ~ret.raised
       => /\ \A side \in Sides :
                OptionOf(side).bates_price = BsmOf(side).option_price
          /\ ret.errors = <<Warning("both",
                 "Bates process did not converge", NaN)>>

\* the Bates pricer failed on the put and the comparator returned
C7_Witness ==
    /\ Returned
    /\ args.fault = "bates_put"
    /\ ret.calls.bates_put.raised
    /\ Len(ret.errors) = 1

\* the time to expiration get_options_data handed to the pricers
YearsOf(side) == Div(FromInt(OptionOf(side).days_to_expiration), F(365, 0))

\* C8: whatever the Bates section did, the returned binomial_price and
\* theoretical_price of each side are the values binomial_option_price
\* (steps of the comparator, European, no dividend) and
\* black_scholes_merton computed for the selected strike and expiration.
C8_LatticeAndAnalyticUnaltered ==
    Returned =>
        \A side \in Sides :
            /\ OptionOf(side).theoretical_price =
                   black_scholes_merton(args.current_price,
                       OptionOf(side).strike, YearsOf(side),
                       args.risk_free_rate, args.annual_volatility,
                       side).option_price
            /\ OptionOf(side).binomial_price =
                   binomial_option_price(args.current_price,
                       OptionOf(side).strike, YearsOf(side),
                       args.risk_free_rate,
                       Div(args.annual_volatility, Hundred), side,
                       LatticeSteps, FALSE, Zero).option_price

\* the fallback replaced a Bates price that differs from the lattice price
C8_Witness ==
    /\ Returned
    /\ Len(ret.errors) > 0
    /\ OptionOf("call").bates_price = OptionOf("call").theoretical_price
    /\ OptionOf("call").binomial_price # OptionOf("call").bates_price

\* an American put priced on a lattice whose p is a probability
AmericanPutPriced ==
    /\ fn = "binomial_option_price"
    /\ args.american
    /\ args.option_type = "put"
    /\ ~ret.raised
    /\ Ge(ret.p, Zero)
    /\ Le(ret.p, One)

\* the European price of the call in progress
EuropeanPrice ==
    binomial_option_price(args.S, args.K, args.T, args.r, args.sigma,
        args.option_type, args.steps, FALSE,
        args.dividend_yield).option_price

\* C9: when the risk-neutral probability p is in [0, 1], the American put
\* of the lattice is worth at least the European put of the same inputs.
C9_AmericanPutAtLeastEuropean ==
    AmericanPutPriced => Ge(ret.option_price, EuropeanPrice)

\* early exercise made the American put worth strictly more
C9_Witness == AmericanPutPriced /\ Gt(ret.option_price, EuropeanPrice)

\* C10: with a volatility of exactly 0 each of the three pricers raises a
\* division-by-zero error (the Bates pricer with its default jump
\* parameters) and returns no price.
C10_ZeroVolatilityRaises ==
    /\ fn \in Pricers
    /\ IsZero(args.sigma)
    => ret.raised

\* the two analytic prices of the arguments of the call in progress
BsmPrice(option_type) ==
    black_scholes_merton(args.S, args.K, args.T, args.r, args.sigma,
                         option_type).option_price

\* S - K * exp(-r * T) for the call in progress
ForwardIntrinsic == Sub(args.S, Mul(args.K, exp(Neg(Mul(args.r, args.T)))))

\* the tolerance of the arithmetic: a thousandth of the spot
ParityTolerance == Mul(F(1, -3), args.S)

\* an analytic call with S, K, T, sigma > 0 that returned a price
AnalyticPriced ==
    /\ fn = "black_scholes_merton"
    /\ Gt(args.S, Zero) /\ Gt(args.K, Zero) /\ Gt(args.T, Zero)
    /\ Gt(args.sigma, Zero)
    /\ ~ret.raised

\* C11: put-call parity of black_scholes_merton: for S, K, T, sigma > 0 the
\* call price minus the put price of the same arguments is
\* S - K * exp(-r * T), within the tolerance of the arithmetic.
C11_PutCallParity ==
    AnalyticPriced =>
        /\ ret.option_price = BsmPrice(args.option_type)
        /\ Le(abs(Sub(Sub(BsmPrice("call"), BsmPrice("put")),
                      ForwardIntrinsic)), ParityTolerance)

\* a put away from the money where both prices are worth more than the
\* tolerance
C11_Witness ==
    /\ AnalyticPriced
    /\ args.option_type = "put"
    /\ args.K # args.S
    /\ Gt(BsmPrice("call"), ParityTolerance)
    /\ Gt(BsmPrice("put"), ParityTolerance)

\* the strikes of a chain
StrikesOf(rows) == {rows[i].strike : i \in 1..Len(rows)}

\* strike is a strike of the chain and no strike of the chain is closer to
\* factor * spot
MinimizesDistance(strike, rows, factor) ==
    LET target == Mul(args.current_price, factor)
    IN  /\ strike \in StrikesOf(rows)
        /\ \A other \in StrikesOf(rows) :
              Le(abs(Sub(strike, target)), abs(Sub(other, target)))

\* C14: the call strike selected by get_options_data minimizes
\* |strike - 1.10 * spot| over the call chain and the put strike minimizes
\* |strike - 0.90 * spot| over the put chain; with an empty call or put
\* chain the function raises instead of returning.
C14_ClosestStrikes ==
    fn = "get_options_data" =>
        /\ Returned =>
              /\ MinimizesDistance(OptionOf("call").strike, args.calls,
                                   F(110, -2))
              /\ MinimizesDistance(OptionOf("put").strike, args.puts,
                                   F(90, -2))
        /\ (args.calls = <<>> \/ args.puts = <<>>) => ret.raised

\* the selected call strike is neither the first nor the last of a chain of
\* three different distances
C14_Witness ==
    /\ Returned
    /\ Len(args.calls) = 3
    /\ OptionOf("call").strike = args.calls[2].strike
    /\ OptionOf("put").strike = args.puts[2].strike

\* bates_simplified with the jump parameters 2.0, -0.02 and 0.05
FixedJumps(S, K, T, r, sigma, option_type) ==
    bates_simplified(S, K, T, r, sigma, F(2, 0), F(-2, -2), F(5, -2),
                     option_type)

\* C19: bates_approximation prices with the jump parameters 2.0, -0.02 and
\* 0.05 for every input and option type (every term of the mixture, with
\* its jump probability and its drift, is the one of these parameters), and
\* each Bates price the comparator obtains is the price of these parameters
\* for the selected strike and expiration.
C19_FixedJumpParameters ==
    /\ fn = "bates_approximation" =>
          ret = FixedJumps(args.S, args.K, args.T, args.r, args.sigma,
                           args.option_type)
    /\ SanityChecked =>
          \A side \in Sides :
              BatesOf(side) =
                  Summary(FixedJumps(args.current_price,
                      OptionOf(side).strike, YearsOf(side),
                      args.risk_free_rate, args.annual_volatility, side))

\* a price that the default intensity of bates_simplified, 1.0, would not
\* have given
C19_Witness ==
    /\ fn = "bates_approximation"
    /\ ~ret.raised
    /\ Len(ret.terms) = max_jumps
    /\ ret.option_price #
           bates_simplified(args.S, args.K, args.T, args.r, args.sigma, One,
               F(-2, -2), F(5, -2), args.option_type).option_price

\* an analytic call price for valid inputs
AnalyticCallPriced == AnalyticPriced /\ args.option_type = "call"

\* max(0, S - K * exp(-r * T)) for the call in progress
LowerBound == max(Zero, ForwardIntrinsic)

\* the reference scenario S=100, K=110, T=30/365, r=0.05, sigma=20, call
Scenario ==
    /\ fn = "black_scholes_merton"
    /\ args = [S |-> F(100, 0), K |-> F(110, 0), T |-> ScenarioTime,
               r |-> F(5, -2), sigma |-> F(20, 0), option_type |-> "call"]

\* C20 as stated: for valid inputs the analytic call price is finite and
\* strictly between max(0, S - K * exp(-r * T)) and S.
C20_StrictNoArbitrageBounds ==
    AnalyticCallPriced =>
        /\ isfinite(ret.option_price)
        /\ Lt(LowerBound, ret.option_price)
        /\ Lt(ret.option_price, args.S)

\* C20: for valid inputs the analytic call price is finite and lies between
\* max(0, S - K * exp(-r * T)) and S up to the rounding of the arithmetic
\* (the bounds themselves can be attained); in the scenario S=100, K=110,
\* T=30/365, r=0.05, sigma=20 the pricer uses sigma = 0.20 and the price is
\* positive and strictly inside the bounds.
C20_NoArbitrageBoundsUpToRounding ==
    /\ AnalyticCallPriced =>
          /\ isfinite(ret.option_price)
          /\ Ge(ret.option_price, Sub(LowerBound, ParityTolerance))
          /\ Le(ret.option_price, Add(args.S, ParityTolerance))
    /\ Scenario =>
          /\ ~ret.raised
          /\ ret.sigma = F(2, -1)
          /\ Gt(ret.option_price, Zero)
          /\ Lt(LowerBound, ret.option_price)
          /\ Lt(ret.option_price, args.S)

\* a call deep in the money with a small volatility: N(d1) and N(d2) are
\* both 1 and the price is the lower bound itself
C20_Witness ==
    /\ AnalyticCallPriced
    /\ args.K = F(90, 0)
    /\ args.T = One
    /\ args.sigma = One
    /\ Gt(LowerBound, Zero)
    /\ ret.option_price = LowerBound

\* the days to expiry of the expirations available to the call in progress
Available == {args.expirations[i] : i \in 1..Len(args.expirations)}
FarEnough == {d \in Available : d >= 30}

\* C13: the expiration get_options_data selects for pricing is a member of
\* the available list, whatever its order; it is the one with the smallest
\* days to expiry among those at least 30 days out, and the furthest
\* available one when none is at least 30 days out.
C13_NearestFarEnoughElseFurthest ==
    Returned =>
        LET selected == OptionOf("call").days_to_expiration
        IN  /\ selected \in Available
            /\ OptionOf("put").days_to_expiration = selected
            /\ FarEnough # {} =>
                  selected \in FarEnough
                  /\ \A d \in FarEnough : selected <= d
            /\ FarEnough = {} => \A d \in Available : selected >= d

\* of two expirations at least 30 days out the later one was selected
\* because it comes first in the list
C13_Witness ==
    /\ Returned
    /\ args.expirations = <<70, 35>>
    /\ OptionOf("call").days_to_expiration = 70

\* what invocation t returns when it runs alone
Alone(t) ==
    get_options_data(invocation[t].current_price, MarketVolatility,
        MarketExpirations, MarketCalls, MarketPuts, MarketRate, "none")

\* the strike_diff columns that invocation t itself has written so far
OwnCallDiff(t) ==
    IF invocation[t].pc \in {"idle", "fetched"} THEN <<>>
    ELSE strike_diff(MarketCalls, Mul(invocation[t].current_price, F(110, -2)))
OwnPutDiff(t) ==
    IF invocation[t].pc \in {"idle", "fetched", "call_diff", "call_picked"}
    THEN <<>>
    ELSE strike_diff(MarketPuts, Mul(invocation[t].current_price, F(90, -2)))

AmericanPriced ==
    /\ fn = "binomial_option_price"
    /\ args.american
    /\ ~ret.raised

\* max(0, S - K) for a call, max(0, K - S) for a put: the value of immediate
\* exercise at the root
ExerciseAtRoot ==
    IF IsCall(args.option_type) THEN max(Zero, Sub(args.S, args.K))
    ELSE max(Zero, Sub(args.K, args.S))

\* C30: with american=True and steps >= 1 the price binomial_option_price
\* returns is at least the immediate-exercise value at the root, max(0, K - S)
\* for a put and max(0, S - K) for a call, whatever p, the discount and the
\* dividend yield are.
C30_AmericanAtLeastExercise ==
    AmericanPriced => Ge(ret.option_price, ExerciseAtRoot)

\* an American put in the money priced with a probability p above 1: the
\* price is the exercise value
C30_Witness ==
    /\ AmericanPriced
    /\ args.option_type = "put"
    /\ Gt(args.K, args.S)
    /\ Gt(ret.p, One)
    /\ ret.option_price = ExerciseAtRoot

\* a call of the lattice pricer that returned
LatticePriced == fn = "binomial_option_price" /\ ~ret.raised

\* the payoff of the option at an asset price
Payoff(asset_price) ==
    IF IsCall(args.option_type) THEN max(Zero, Sub(asset_price, args.K))
    ELSE max(Zero, Sub(args.K, asset_price))

\* the asset price S * u^(i-j) * d^j of node (i, j) of the call in progress
NodePrice(i, j) ==
    Mul(Mul(args.S, PowInt(ret.u, i - j)), PowInt(Div(One, ret.u), j))

\* the reference two-dimensional recursion of the call in progress:
\* V(steps, j) = payoff, V(i, j) = discount * (p * V(i+1, j) + (1 - p) *
\* V(i+1, j+1)), maximised with the payoff at the node when american
RECURSIVE V(_, _)
V(i, j) ==
    IF i = args.steps THEN Payoff(NodePrice(i, j))
    ELSE LET discount == exp(Neg(Mul(args.r, StepLength)))
             continuation ==
                 Mul(discount, Add(Mul(ret.p, V(i + 1, j)),
                                   Mul(Sub(One, ret.p), V(i + 1, j + 1))))
         IN  IF args.american THEN max(continuation, Payoff(NodePrice(i, j)))
             ELSE continuation

\* C23: the single-array, in-place backward induction of
\* binomial_option_price (step i from steps - 1 down to 0, node j ascending,
\* option_values[j] written from option_values[j] and option_values[j + 1])
\* returns the root value of the reference two-dimensional recursion; no
\* node reads a value overwritten in the same step.
C23_InPlaceIsReference ==
    LatticePriced => ret.option_price = V(0, 0)

\* an American put on a tree of at least two steps, worth more than zero
C23_Witness ==
    /\ LatticePriced
    /\ args.steps >= 2
    /\ args.american
    /\ args.option_type = "put"
    /\ Gt(ret.option_price, Zero)
    /\ ret.option_price = V(0, 0)

\* the call followed iteration by iteration has returned
LoopReturned(name) == loop.pc = "returned" /\ loop.fn = name

\* C27: every pricer call terminates.  For steps >= 1 binomial_option_price
\* finishes after exactly steps * (steps + 1) / 2 updates of a node, and
\* bates_simplified after at most 10 evaluations of a mixture term, on every
\* input that raises no arithmetic error (a call that raises ends as well).
C27_PricersTerminate ==
    /\ [](LoopReturned("binomial_option_price") =>
              2 * loop.updates = loop.call.steps * (loop.call.steps + 1))
    /\ [](loop.evaluations <= 10)
    /\ [](LoopReturned("binomial_option_price") =>
              loop.option_price =
                  binomial_option_price(loop.call.S, loop.call.K,
                      loop.call.T, loop.call.r, loop.call.sigma,
                      loop.call.option_type, loop.call.steps,
                      loop.call.american, loop.call.dividend_yield
                  ).option_price)
    /\ [](LoopReturned("bates_simplified") =>
              loop.option_price =
                  bates_simplified(loop.call.S, loop.call.K, loop.call.T,
                      loop.call.r, loop.call.sigma, loop.call.lambda_param,
                      loop.call.mu_j, loop.call.sigma_j,
                      loop.call.option_type).option_price)
    /\ (loop.pc \in {"induction", "mixture"})
           ~> (loop.pc \in {"returned", "raised"})

\* a lattice of three steps returned after six node updates
C27_Witness ==
    /\ LoopReturned("binomial_option_price")
    /\ loop.call.steps = 3
    /\ loop.updates = 6

\* a call of bates_simplified in progress
BatesCalled == fn = "bates_simplified"

\* P(n) = (lambda * T)^n * exp(-lambda * T) / n! for the call in progress
PoissonWeight(n) ==
    Div(Mul(PowInt(Mul(args.lambda_param, args.T), n),
            exp(Neg(Mul(args.lambda_param, args.T)))),
        FromInt(factorial(n)))

\* term n contributes: P(n) >= 1e-10
Contributes(n) == Ge(PoissonWeight(n), F(1, -10))

\* BS_n: the Black-Scholes formula at sigma_n = sqrt(sigma^2 + n *
\* sigma_j^2 / T) and S_n = S * exp(n * mu_j), where sigma is the volatility
\* the call works with, and with the drift and the discount factor of term
\* n of the call
TermPrice(n) ==
    LET sigma_n == sqrt(Add(PowInt(ret.sigma, 2),
                            Div(Mul(FromInt(n), PowInt(args.sigma_j, 2)),
                                args.T)))
        S_n == Mul(args.S, exp(Mul(FromInt(n), args.mu_j)))
        term == ret.terms[n + 1]
        vol == Mul(sigma_n, sqrt(args.T))
        d1 == Div(Add(log(Div(S_n, args.K)),
                      Mul(Add(term.rate_d, Mul(Half, PowInt(sigma_n, 2))),
                          args.T)), vol)
        d2 == Sub(d1, vol)
    IN  IF IsCall(args.option_type)
        THEN Sub(Mul(S_n, norm_cdf(d1)),
                 Mul(Mul(args.K, term.discount), norm_cdf(d2)))
        ELSE Sub(Mul(Mul(args.K, term.discount), norm_cdf(Neg(d2))),
                 Mul(S_n, norm_cdf(Neg(d1))))

\* the sum of P(n) * BS_n over the contributing n of n..9, added to sum in
\* ascending order of n
RECURSIVE MixtureSum(_, _)
MixtureSum(n, sum) ==
    IF n > 9 THEN sum
    ELSE MixtureSum(n + 1, IF Contributes(n)
                           THEN Add(sum, Mul(PoissonWeight(n), TermPrice(n)))
                           ELSE sum)

\* C24: the result of bates_simplified is exactly the sum over the jump
\* counts n in 0..9 of P(n) * BS_n with P(n) = (lambda * T)^n *
\* exp(-lambda * T) / n!; term n contributes if and only if P(n) >= 1e-10, a
\* skipped term is not evaluated at all (it cannot raise), sigma_n =
\* sqrt(sigma^2 + n * sigma_j^2 / T) and S_n = S * exp(n * mu_j).
C24_TruncatedPoissonMixture ==
    BatesCalled =>
        /\ \A k \in 1..Len(ret.terms) :
               /\ ret.terms[k].n = k - 1
               /\ ret.terms[k].n \in 0..9
               /\ ret.terms[k].skipped <=> ~Contributes(k - 1)
               /\ ret.terms[k].raised => Contributes(k - 1)
        /\ ~ret.raised =>
               /\ Len(ret.terms) = 10
               /\ ret.option_price = MixtureSum(0, Zero)

\* a call at zero volatility whose n = 0 term, which would divide by zero,
\* is skipped while later terms contribute to a positive price
C24_Witness ==
    /\ BatesCalled
    /\ ~ret.raised
    /\ IsZero(ret.sigma)
    /\ ~Contributes(0)
    /\ Contributes(9)
    /\ Gt(ret.option_price, Zero)
    /\ ret.option_price = MixtureSum(0, Zero)

\* the exit words of the shell
ExitWords ==
    {<<"e", "x", "i", "t">>, <<"q", "u", "i", "t">>, <<"q">>, <<"b", "y", "e">>}

\* the prompt gave a line, and the line is neither an exit word once
\* lower-cased nor made of whitespace only
Ticker(entered) ==
    /\ entered.event = "line"
    /\ lower(entered.text) \notin ExitWords
    /\ \E k \in 1..Len(entered.text) : entered.text[k] \notin Whitespace

\* C26: the interactive loop ends exactly when the line entered, lower-cased,
\* is exit, quit, q or bye; Ctrl+C and end-of-input at the prompt, and an
\* empty or whitespace-only line, lead to the next prompt without an
\* analysis; every other line leads to exactly one analyze_ticker call and
\* then to the next prompt
C26_ShellLoop ==
    [][/\ shell.pc = "exited" => shell' = shell
       /\ (shell.pc = "prompt" /\ shell' # shell) =>
            /\ shell'.prompts = shell.prompts + 1
            /\ shell'.analyses = shell.analyses
            /\ shell'.pc = "exited" <=>
                   /\ shell'.entered.event = "line"
                   /\ lower(shell'.entered.text) \in ExitWords
            /\ shell'.pc = "analyze" <=> Ticker(shell'.entered)
            /\ shell'.pc \in {"exited", "analyze", "prompt"}
       /\ (shell.pc = "analyze" /\ shell' # shell) =>
            /\ shell'.pc = "prompt"
            /\ shell'.prompts = shell.prompts
            /\ shell'.analyses = shell.analyses + 1]_vars

\* the shell was interrupted at a prompt, was given a whitespace-only line,
\* analysed a ticker once and then left on an exit word in capitals
C26_Witness ==
    /\ shell.pc = "exited"
    /\ shell.entered.text = <<"E", "X", "I", "T">>
    /\ shell.prompts = MaxPrompts
    /\ shell.analyses = 1

\* the lattice priced a European option without dividends at a volatility
\* the analytic pricer accepts
EuropeanLatticePriced ==
    /\ LatticePriced
    /\ ~args.american
    /\ IsZero(args.dividend_yield)
    /\ Gt(args.sigma, Zero)

\* black_scholes_merton for the inputs of the lattice call
AnalyticPrice ==
    black_scholes_merton(args.S, args.K, args.T, args.r, args.sigma,
        args.option_type).option_price

\* the European lattice for the same inputs with n steps
LatticeWith(n) ==
    binomial_option_price(args.S, args.K, args.T, args.r, args.sigma,
        args.option_type, n, FALSE, args.dividend_yield)

\* |price - analytic|
DistanceToAnalytic(price) ==
    LET diff == Sub(price, AnalyticPrice)
    IN  IF Lt(diff, Zero) THEN Neg(diff) ELSE diff

\* C22 as stated: with american=False the distance between the lattice
\* price and the analytic price never grows with the number of steps: for
\* all n < m, |lattice(m) - analytic| <= |lattice(n) - analytic|.
C22_MonotoneInSteps ==
    EuropeanLatticePriced =>
        \A n \in 1..(args.steps - 1) :
            ~LatticeWith(n).raised =>
                Le(DistanceToAnalytic(ret.option_price),
                   DistanceToAnalytic(LatticeWith(n).option_price))

\* a twelve-year call at strike 90 and 20 percent volatility: two steps are
\* further from the analytic price than one step
C22_Witness ==
    /\ EuropeanLatticePriced
    /\ args.sigma = F(20, 0)
    /\ args.T = F(12, 0)
    /\ args.K = F(90, 0)
    /\ args.option_type = "call"
    /\ args.steps = 2
    /\ ~LatticeWith(1).raised
    /\ Gt(DistanceToAnalytic(ret.option_price),
          DistanceToAnalytic(LatticeWith(1).option_price))

\* the jump-diffusion pricer priced with jump intensity 0 at a volatility
\* the analytic pricer accepts
NoJumpPriced ==
    /\ BatesCalled
    /\ IsZero(args.lambda_param)
    /\ Gt(args.sigma, Zero)
    /\ ~ret.raised

\* two prices are within 1% of the larger of them
WithinOnePercent(a, b) ==
    LET diff == Sub(a, b)
        dist == IF Lt(diff, Zero) THEN Neg(diff) ELSE diff
    IN  Le(dist, Mul(F(1, -2), IF Lt(a, b) THEN b ELSE a))

\* C21 as stated, for the analytic and the jump-diffusion pricer: for
\* sigma > 0 and T > 0 the jump-diffusion price at jump intensity 0 is
\* within 1% of the analytic price of the same inputs.
C21_PricersAgree ==
    NoJumpPriced => WithinOnePercent(ret.option_price, AnalyticPrice)

\* at sigma = 0.5 the jump-diffusion price is more than twice the analytic
\* price of the same inputs
C21_Witness ==
    /\ NoJumpPriced
    /\ args.sigma = F(5, -1)
    /\ args.T = One
    /\ args.K = F(100, 0)
    /\ args.option_type = "call"
    /\ Gt(ret.option_price, Mul(F(2, 0), AnalyticPrice))

-----------------------------------------------------------------------------
(* Properties of the provider layer.                                       *)

\* a call of get_provider in progress
GetProviderCalled == fn = "get_provider"

\* the API key PolygonProvider finds for the call in progress: the keyword
\* argument if it is a non-empty string, else the environment variable
KeyFound ==
    IF "api_key" \in Keywords(args.kwargs)
       /\ Truthy(KeywordValue(args.kwargs, "api_key"))
    THEN KeywordValue(args.kwargs, "api_key")
    ELSE args.environ

\* C16 as stated: get_provider returns a YFinanceProvider for 'yfinance', a
\* PolygonProvider for 'polygon' and raises ValueError for every other
\* name, None included.
C16_ProviderByName ==
    GetProviderCalled =>
        CASE args.provider_name = "yfinance" ->
                 ~ret.raised /\ ret.provider.kind = "yfinance"
          [] args.provider_name = "polygon" ->
                 ~ret.raised /\ ret.provider.kind = "polygon"
          [] OTHER -> ret.raised /\ ret.error = "ValueError"

\* C16: get_provider returns a YFinanceProvider for 'yfinance' whatever the
\* keyword arguments; for 'polygon' it returns a PolygonProvider holding the
\* API key found (keyword api_key, else POLYGON_API_KEY), raises ValueError
\* when no key is found and TypeError for any other keyword; it raises
\* ValueError for every other name, None included.
C16_ProviderByNameAndKey ==
    GetProviderCalled =>
        CASE args.provider_name = "yfinance" ->
                 ~ret.raised /\ ret.provider = YFinanceProvider
          [] args.provider_name = "polygon" ->
                 IF ~(Keywords(args.kwargs) \subseteq {"api_key"})
                 THEN ret.raised /\ ret.error = "TypeError"
                 ELSE IF Truthy(KeyFound)
                 THEN /\ ~ret.raised
                      /\ ret.provider = [kind |-> "polygon",
                                         api_key |-> KeyFound]
                 ELSE ret.raised /\ ret.error = "ValueError"
          [] OTHER -> ret.raised /\ ret.error = "ValueError"

\* 'polygon' asked for without any API key: ValueError
C16_Witness ==
    /\ GetProviderCalled
    /\ args.provider_name = "polygon"
    /\ args.kwargs = {}
    /\ args.environ = None
    /\ ret.raised
    /\ ret.error = "ValueError"

\* the three data_manager calls that take a provider name
DataManagerCalls == {"data_manager.get_stock_data",
                     "data_manager.get_risk_free_rate",
                     "data_manager.get_options_chain"}

\* C17: a data_manager call that names a provider (get_stock_data,
\* get_risk_free_rate or get_options_chain with a non-empty provider)
\* leaves the default provider as it was, whether the call returns or
\* raises.
C17_NamedProviderLeavesDefault ==
    [][(fn' \in DataManagerCalls /\ Truthy(args'.provider))
           => current_provider' = current_provider]_vars

\* the Polygon provider served a call while the default stayed the Yahoo
\* Finance provider
C17_Witness ==
    /\ fn = "data_manager.get_risk_free_rate"
    /\ args.provider = "polygon"
    /\ ~ret.raised
    /\ ret.tried[1] = "polygon"
    /\ current_provider = YFinanceProvider

\* a call of PolygonProvider.get_risk_free_rate in progress
PolygonRateCalled == fn = "PolygonProvider.get_risk_free_rate"

\* a source that yields a rate
HasRate(answer) == answer.status = "value"

\* C18: PolygonProvider.get_risk_free_rate takes the rate of the first of
\* the Polygon quote, the FRED series and the Yahoo Finance provider that
\* yields one, consulting them in this order; it returns 0.05 only when all
\* three fail; when Polygon and FRED yield nothing and Yahoo Finance would
\* return x, the result is x.
C18_PolygonThenFredThenYahoo ==
    PolygonRateCalled =>
        /\ HasRate(args.polygon) =>
              ret.rate = Div(args.polygon.value, Hundred)
        /\ ~HasRate(args.polygon) /\ HasRate(args.fred) =>
              ret.rate = Div(args.fred.value, Hundred)
        /\ ~HasRate(args.polygon) /\ ~HasRate(args.fred) =>
              /\ ret.tried = <<"polygon", "fred", "yahoo">>
              /\ ret.rate = yfinance_get_risk_free_rate(args.yahoo).rate
        /\ ret.rate = DefaultRate =>
              ~HasRate(args.polygon) /\ ~HasRate(args.fred)
              /\ ~HasRate(args.yahoo)

\* Polygon and FRED yielded nothing, Yahoo Finance holds a quote, and the
\* constant came back without Yahoo Finance having been asked
C18_Witness ==
    /\ PolygonRateCalled
    /\ args.polygon.status = "empty"
    /\ args.fred.status = "not200"
    /\ HasRate(args.yahoo)
    /\ ret.tried = <<"polygon", "fred">>
    /\ ret.rate = DefaultRate

\* a call of get_options_chain, of a provider or of data_manager, that asks
\* for a date the source lists with calls and puts, on a provider that
\* could be constructed
ListedDateAsked ==
    /\ fn \in {"YFinanceProvider.get_options_chain",
               "PolygonProvider.get_options_chain",
               "data_manager.get_options_chain"}
    /\ args.expiration_date # <<>>
    /\ \E i \in 1..Len(args.expirations) :
           args.expirations[i] = args.expiration_date[1]
    /\ args.listed = "both"
    /\ fn = "data_manager.get_options_chain" /\ Truthy(args.provider) =>
           ~get_provider(args.provider, args.kwargs, args.environ).raised

\* C15: get_options_chain(ticker, expiration_date=d) with a date d returns
\* the tuple (d, calls, puts) holding the chain of that date, for both
\* providers and through data_manager.get_options_chain.
C15_AskedDateIsReturned ==
    ListedDateAsked =>
        /\ ~ret.raised
        /\ ret.selected_expiration = args.expiration_date[1]
        /\ ret.calls = OfType(ContractsOf(args.expiration_date[1],
                                          args.listed), "call")
        /\ ret.puts = OfType(ContractsOf(args.expiration_date[1],
                                         args.listed), "put")

\* the default provider was asked through data_manager for a listed date
\* and the call raised on the unbound selected_expiration
C15_Witness ==
    /\ ListedDateAsked
    /\ fn = "data_manager.get_options_chain"
    /\ ~Truthy(args.provider)
    /\ ret.raised
    /\ ret.cause = "UnboundLocalError"

\* a call of set_default_provider that installed a provider
Installed(f, r) == f = "set_default_provider" /\ ~r.raised

\* C25: over any sequence of calls, get_default_provider returns the
\* instance installed by the most recent successful set_default_provider;
\* if none was installed, the first get_default_provider creates a
\* YFinanceProvider and later ones return that same instance until a
\* set_default_provider succeeds; it never returns None.  Step by step:
\* get_default_provider returns the object the global refers to, a new
\* YFinanceProvider only when the global was None; a successful
\* set_default_provider installs a new object; nothing else replaces an
\* installed object.
C25_DefaultProviderIsSticky ==
    [][/\ fn' = "get_default_provider" =>
              /\ ret'.provider # NoProvider
              /\ ret'.id # 0
              /\ ret'.provider = current_provider'
              /\ ret'.id = objects'.default
              /\ IF objects.default # 0
                 THEN ret'.id = objects.default
                      /\ ret'.provider = current_provider
                 ELSE ret'.id > objects.constructed
                      /\ ret'.provider = YFinanceProvider
       /\ Installed(fn', ret') =>
              /\ objects'.default > objects.constructed
              /\ current_provider' = ret'.provider
       /\ ~Installed(fn', ret') /\ objects.default # 0 =>
              /\ objects'.default = objects.default
              /\ current_provider' = current_provider
       /\ (objects'.default = 0) <=> (current_provider' = NoProvider)]_vars

\* get_default_provider returned the Yahoo Finance provider created earlier,
\* although another provider object was constructed in between
C25_Witness ==
    /\ fn = "get_default_provider"
    /\ ret.provider = YFinanceProvider
    /\ ret.id = objects.default
    /\ ret.id < objects.constructed

\* C29: a set_default_provider that raises (unknown name, or 'polygon'
\* without an API key in the keywords and in the environment) leaves the
\* default provider as it was: the same object, or none, as before the call.
C29_FailedSetLeavesDefault ==
    [][(fn' = "set_default_provider" /\ ret'.raised)
           => /\ current_provider' = current_provider
              /\ objects' = objects
              /\ get_default_provider(current_provider')
                     = get_default_provider(current_provider)]_vars

\* 'polygon' asked for without any key while a Polygon provider was the
\* default: ValueError, and the default is still that provider
C29_Witness ==
    /\ fn = "set_default_provider"
    /\ args.provider_name = "polygon"
    /\ args.kwargs = {}
    /\ args.environ = None
    /\ ret.raised
    /\ ret.error = "ValueError"
    /\ current_provider.kind = "polygon"
    /\ objects.default # 0

\* a call in progress of one of the three get_risk_free_rate functions that
\* retrieve a rate: the module-level one of data.py and the providers'
RateCalls == {"data.get_risk_free_rate",
              "YFinanceProvider.get_risk_free_rate",
              "PolygonProvider.get_risk_free_rate"}

\* the quotes, as decimals, of the sources of the call in progress that
\* hold one
QuotedRates ==
    {Div(a.value, Hundred) :
        a \in {b \in (IF PolygonRateCalled
                      THEN {args.polygon, args.fred, args.yahoo}
                      ELSE {args.yahoo}) : HasRate(b)}}

\* C28: get_risk_free_rate never raises, for the module-level function and
\* for both providers; it returns the quoted yield divided by 100 when the
\* retrieval obtained one and 0.05 when the yield is missing or an error
\* occurred during the retrieval.
C28_RateNeverRaises ==
    fn \in RateCalls =>
        /\ ~ret.raised
        /\ ret.rate \in QuotedRates \cup {DefaultRate}
        /\ IF PolygonRateCalled
           THEN /\ HasRate(args.polygon) =>
                       ret.rate = Div(args.polygon.value, Hundred)
                /\ args.polygon.status = "empty" /\ HasRate(args.fred) =>
                       ret.rate = Div(args.fred.value, Hundred)
                /\ args.polygon.status = "raises" => ret.rate = DefaultRate
                /\ QuotedRates = {} => ret.rate = DefaultRate
           ELSE IF HasRate(args.yahoo)
                THEN ret.rate = Div(args.yahoo.value, Hundred)
                ELSE ret.rate = DefaultRate

\* the Polygon request raised and the provider answered with the default
C28_Witness ==
    /\ PolygonRateCalled
    /\ args.polygon.status = "raises"
    /\ ~ret.raised
    /\ ret.rate = DefaultRate

====
